---------------------------- MODULE Spec2Model ----------------------------
(***************************************************************************)
(* FakeNet-NG DiverterBase (src/fakenet/diverters/diverterbase.py): the    *)
(* per-packet redirect / masquerade engine, its four flow tables, the      *)
(* ignore filters and the start-up configuration parser.                   *)
(*                                                                         *)
(* One pipeline run (handle_pkt) is a sequence of steps of a thread; a     *)
(* step is either the acquisition of one lock or one lock-protected (or    *)
(* unprotected) access together with the thread-local work that follows.   *)
(***************************************************************************)
EXTENDS Integers, Sequences, FiniteSets, TLC

(***************************************************************************)
(* Bounds of the model.                                                    *)
(***************************************************************************)
MaxPkts == 2

(***************************************************************************)
(* Values.  Python's None is the string "None" where the other values are  *)
(* strings, NoPort where they are port numbers, and << >> for a command.   *)
(***************************************************************************)
None == "None"
NoPort == -1

LocalIp == "192.168.19.222"
LoopbackIp == "127.0.0.1"
ForeignIp == "8.8.8.8"
IPs == {LocalIp, LoopbackIp, ForeignIp}

\* 0 and 53 are never bound; 80 and 1337 are listener ports of the
\* configurations below.
Ports == {0, 53, 80, 1337}

SelfPid == "self"
OtherPid == "other"

Threads == {1, 2}
SeqThreads == {1}

(***************************************************************************)
(* Dictionaries are functions with a finite domain.                        *)
(***************************************************************************)
EmptyDict == << >>

Put(d, k, v) == [x \in (DOMAIN d) \cup {k} |-> IF x = k THEN v ELSE d[x]]

Del(d, k) == [x \in (DOMAIN d) \ {k} |-> d[x]]

\* d[k1][k2] = v, creating d[k1] when absent
Put2(d, k1, k2, v) ==
    IF k1 \in DOMAIN d THEN [d EXCEPT ![k1] = Put(@, k2, v)]
    ELSE Put(d, k1, Put(EmptyDict, k2, v))

\* (k1 in d) and (k2 in d[k1])
In2(d, k1, k2) == k1 \in DOMAIN d /\ k2 \in DOMAIN d[k1]

(***************************************************************************)
(* Configuration: the [Diverter] section and the listener sections.       *)
(***************************************************************************)
Listener(name, keys, port, protocol) ==
    [name |-> name, keys |-> keys, port |-> port, protocol |-> protocol,
     hidden |-> FALSE,
     processwhitelist |-> {}, processblacklist |-> {},
     hostwhitelist |-> {}, hostblacklist |-> {},
     executecmd |-> "ok"]

PP == {"port", "protocol"}

RawTCP == Listener("rawtcplistener", PP, 1337, "TCP")
RawUDP == Listener("rawudplistener", PP, 1337, "UDP")
HTTP80 == Listener("httplistener80", PP, 80, "TCP")

BaseListeners == <<RawTCP, RawUDP, HTTP80>>

\* test_redir_logic's configuration, reduced to the three ports of Ports
BaseConfig ==
    [networkmode |-> "singlehost",
     platform |-> "linux",
     redirectalltraffic |-> TRUE,
     defaulttcplistener |-> "rawtcplistener",
     defaultudplistener |-> "rawudplistener",
     dumppackets |-> FALSE,
     blacklistportstcp |-> {},
     blacklistportsudp |-> {},
     processwhitelist |-> {},
     processblacklist |-> {},
     hostblacklist |-> {},
     listeners |-> BaseListeners]

(***************************************************************************)
(* fnconfig.Config accessors over the [Diverter] section.                  *)
(***************************************************************************)
is_set(cfg, opt) ==
    CASE opt = "redirectalltraffic" -> cfg.redirectalltraffic
      [] opt = "dumppackets" -> cfg.dumppackets

is_unconfigured(cfg, opt) ==
    CASE opt = "defaulttcplistener" -> cfg.defaulttcplistener = None
      [] opt = "defaultudplistener" -> cfg.defaultudplistener = None

\* index of the listener section called name, 0 when there is none
RECURSIVE ListenerIndex(_, _, _)
ListenerIndex(ls, name, i) ==
    IF i > Len(ls) THEN 0
    ELSE IF ls[i].name = name THEN i
    ELSE ListenerIndex(ls, name, i + 1)

(***************************************************************************)
(* _build_cmd: the command for a template, << >> (None) when the template  *)
(* names a slot that is not one of the six.  str.format raises IndexError, *)
(* which the except clause for KeyError lets through, when the template    *)
(* indexes a slot beyond its text: "{src_port[4]}" with a source port of   *)
(* fewer than five digits.                                                 *)
(***************************************************************************)
IndexTemplate == "{src_port[4]}"

build_cmd_tmpl(tmpl, pid, comm, src_ip, sport, dst_ip, dport) ==
    IF tmpl = "badkey" THEN << >>
    ELSE IF tmpl = IndexTemplate /\ sport < 10000 THEN <<"IndexError">>
    ELSE <<tmpl, pid, comm, src_ip, sport, dst_ip, dport>>

(***************************************************************************)
(* parse_listeners_config, one listener section at a time.                 *)
(***************************************************************************)
EmptyListenerPolicy ==
    [status |-> "ok",
     diverted_ports |-> EmptyDict,
     port_process_whitelist |-> EmptyDict,
     port_process_blacklist |-> EmptyDict,
     port_host_whitelist |-> EmptyDict,
     port_host_blacklist |-> EmptyDict,
     port_execute |-> EmptyDict]

parse_listener(acc, l) ==
    IF "port" \notin l.keys THEN acc
    ELSE IF "protocol" \notin l.keys THEN [acc EXCEPT !.status = "fatal"]
    ELSE IF l.protocol \notin {"TCP", "UDP"} THEN [acc EXCEPT !.status = "fatal"]
    ELSE IF {"processwhitelist", "processblacklist"} \subseteq l.keys
         THEN [acc EXCEPT !.status = "fatal"]
    ELSE IF {"hostwhitelist", "hostblacklist"} \subseteq l.keys
         THEN [acc EXCEPT !.status = "fatal"]
    ELSE IF "executecmd" \in l.keys
            /\ build_cmd_tmpl(l.executecmd, "0", "test", "1.2.3.4", 12345,
                              "4.3.2.1", l.port) = << >>
         THEN [acc EXCEPT !.status = "fatal"]
    ELSE [acc EXCEPT
            !.diverted_ports = Put2(@, l.protocol, l.port, l.hidden),
            !.port_process_whitelist =
                IF "processwhitelist" \in l.keys
                THEN Put2(@, l.protocol, l.port, l.processwhitelist) ELSE @,
            !.port_process_blacklist =
                IF "processblacklist" \in l.keys
                THEN Put2(@, l.protocol, l.port, l.processblacklist) ELSE @,
            !.port_host_whitelist =
                IF "hostwhitelist" \in l.keys
                THEN Put2(@, l.protocol, l.port, l.hostwhitelist) ELSE @,
            !.port_host_blacklist =
                IF "hostblacklist" \in l.keys
                THEN Put2(@, l.protocol, l.port, l.hostblacklist) ELSE @,
            !.port_execute =
                IF "executecmd" \in l.keys
                THEN Put2(@, l.protocol, l.port, l.executecmd) ELSE @]

RECURSIVE parse_listeners_from(_, _, _)
parse_listeners_from(ls, i, acc) ==
    IF i > Len(ls) \/ acc.status # "ok" THEN acc
    ELSE parse_listeners_from(ls, i + 1, parse_listener(acc, ls[i]))

parse_listeners_config(ls) == parse_listeners_from(ls, 1, EmptyListenerPolicy)

(***************************************************************************)
(* parse_diverter_config.  status is "ok", "fatal" (sys.exit) or "crashed" *)
(* (an exception leaves __init__).                                         *)
(***************************************************************************)
default_listener_of(cfg) ==
    LET ti == ListenerIndex(cfg.listeners, cfg.defaulttcplistener, 1)
        ui == ListenerIndex(cfg.listeners, cfg.defaultudplistener, 1)
    IN  IF ~is_set(cfg, "redirectalltraffic")
        THEN [status |-> "ok", dl |-> [p \in {"TCP", "UDP"} |-> NoPort]]
        ELSE IF is_unconfigured(cfg, "defaulttcplistener")
                \/ is_unconfigured(cfg, "defaultudplistener")
                \/ ti = 0 \/ ui = 0
        THEN [status |-> "fatal", dl |-> [p \in {"TCP", "UDP"} |-> NoPort]]
        ELSE IF "port" \notin cfg.listeners[ti].keys
                \/ "port" \notin cfg.listeners[ui].keys
        THEN [status |-> "crashed", dl |-> [p \in {"TCP", "UDP"} |-> NoPort]]
        ELSE [status |-> "ok",
              dl |-> [p \in {"TCP", "UDP"} |->
                        IF p = "TCP" THEN cfg.listeners[ti].port
                        ELSE cfg.listeners[ui].port]]

parse_diverter_config(cfg) ==
    LET dl == default_listener_of(cfg)
    IN  [status |->
            IF cfg.networkmode \notin {None, "singlehost", "multihost"}
            THEN "fatal"
            ELSE IF cfg.processwhitelist # {} /\ cfg.processblacklist # {}
            THEN "fatal"
            ELSE dl.status,
         single_host_mode |-> cfg.networkmode # "multihost",
         pcap_enabled |-> is_set(cfg, "dumppackets"),
         blacklist_processes |-> cfg.processblacklist,
         whitelist_processes |-> cfg.processwhitelist,
         default_listener |-> dl.dl,
         blacklist_ports |->
            IF is_set(cfg, "redirectalltraffic")
            THEN [p \in {"TCP", "UDP"} |->
                    IF p = "TCP" THEN cfg.blacklistportstcp
                    ELSE cfg.blacklistportsudp]
            ELSE [p \in {"TCP", "UDP"} |-> {}]]

(***************************************************************************)
(* The host: its addresses (ip_addrs, loopback_ip, external_ip) and the    *)
(* OS delegate's choice of a redirection target.                           *)
(***************************************************************************)
ip_addrs == [v \in {4, 6} |-> IF v = 4 THEN {LocalIp, LoopbackIp} ELSE {}]

loopback_ip == LoopbackIp

external_ip == LocalIp

\* dst_ip.startswith('127.')
StartsWith127(ip) == ip = LoopbackIp

getNewDestinationIp(platform, src_ip) ==
    IF platform = "windows" /\ ~StartsWith127(src_ip) THEN external_ip
    ELSE loopback_ip

(***************************************************************************)
(* fnpacket.PacketCtx: the current 5-tuple, the pristine 5-tuple taken at  *)
(* construction, and the mangled flag that every setter raises.            *)
(***************************************************************************)
NoPkt ==
    [id |-> 0, parsed |-> FALSE, ipver |-> 4, proto_name |-> None,
     src_ip |-> None, dst_ip |-> None, sport |-> 0, dport |-> 0,
     src_ip0 |-> None, dst_ip0 |-> None, sport0 |-> 0, dport0 |-> 0,
     mangled |-> FALSE]

\* a datagram off the wire: raw = <<parsed, proto_name, src, sport, dst, dport>>
PacketCtx(id, raw) ==
    [id |-> id, parsed |-> raw[1], ipver |-> 4, proto_name |-> raw[2],
     src_ip |-> raw[3], dst_ip |-> raw[5], sport |-> raw[4], dport |-> raw[6],
     src_ip0 |-> raw[3], dst_ip0 |-> raw[5], sport0 |-> raw[4],
     dport0 |-> raw[6], mangled |-> FALSE]

set_src_ip(p, v) == [p EXCEPT !.src_ip = v, !.mangled = TRUE]

set_dst_ip(p, v) == [p EXCEPT !.dst_ip = v, !.mangled = TRUE]

set_sport(p, v) == [p EXCEPT !.sport = v, !.mangled = TRUE]

set_dport(p, v) == [p EXCEPT !.dport = v, !.mangled = TRUE]

gen_endpoint_key(proto, ip, port) == <<proto, ip, port>>

skey(p) == gen_endpoint_key(p.proto_name, p.src_ip, p.sport)

dkey(p) == gen_endpoint_key(p.proto_name, p.dst_ip, p.dport)

\* the wire form of the packet as it is now
octets(p) == <<p.proto_name, p.src_ip, p.sport, p.dst_ip, p.dport>>

(***************************************************************************)
(* State.                                                                  *)
(***************************************************************************)
VARIABLES
    phase,                   \* "init", "running", "fatal" or "crashed"
    config,                  \* the configuration handed to __init__
    single_host_mode, default_listener, diverted_ports,
    blacklist_ports, blacklist_processes, whitelist_processes,
    port_process_whitelist, port_process_blacklist,
    port_host_whitelist, port_host_blacklist, port_execute,
    pcap_enabled,            \* self.pcap is not None
    pcap,                    \* the records of the capture file, in order
    port_fwd_table, ip_fwd_table, ignore_table, sessions,
    lock,                    \* lock name -> the thread holding it, 0 if free
    executed,                \* the commands handed to subprocess.Popen
    npkts,                   \* packets handed to handle_pkt so far
    pc, pkt, pid, comm       \* per thread: position, packet, get_pid_comm

policy == <<single_host_mode, default_listener, diverted_ports,
            blacklist_processes, whitelist_processes,
            port_process_whitelist, port_process_blacklist,
            port_host_whitelist, port_host_blacklist, port_execute,
            pcap_enabled>>

tables == <<port_fwd_table, ip_fwd_table, ignore_table, sessions>>

vars == <<phase, config, policy, blacklist_ports, pcap, tables, lock,
          executed, npkts, pc, pkt, pid, comm>>

LockNames == {"pcap_lock", "port_fwd_table_lock", "ignore_table_lock",
              "ip_fwd_table_lock"}

(***************************************************************************)
(* check_should_ignore: ret is "True", "False" or "KeyError" (the lookup   *)
(* of a protocol that has no entry), bl the blacklist_ports it leaves.     *)
(***************************************************************************)
\* variant: the process lists are consulted in both network modes
ProcessRuleMatches_any_mode(p, c) ==
    /\ c # None
    /\ IF c \in blacklist_processes THEN TRUE
       ELSE IF whitelist_processes # {} /\ c \notin whitelist_processes
       THEN TRUE
       ELSE IF In2(port_process_blacklist, p.proto_name, p.dport0)
       THEN TRUE
       ELSE IF In2(port_process_whitelist, p.proto_name, p.dport0)
       THEN c \notin port_process_whitelist[p.proto_name][p.dport0]
       ELSE FALSE

ProcessRuleMatches(p, c) ==
    /\ single_host_mode
    /\ c # None
    /\ IF c \in blacklist_processes THEN TRUE
       ELSE IF whitelist_processes # {} /\ c \notin whitelist_processes
       THEN TRUE
       ELSE IF In2(port_process_blacklist, p.proto_name, p.dport0)
       THEN TRUE
       ELSE IF In2(port_process_whitelist, p.proto_name, p.dport0)
       THEN c \notin port_process_whitelist[p.proto_name][p.dport0]
       ELSE FALSE

\* variant: only the global host blacklist is consulted
HostRuleMatches_global_only(p) == p.dst_ip0 \in config.hostblacklist

HostRuleMatches(p) ==
    \/ p.dst_ip0 \in config.hostblacklist
    \/ /\ In2(port_host_whitelist, p.proto_name, p.dport0)
       /\ p.dst_ip0 \notin port_host_whitelist[p.proto_name][p.dport0]
    \/ /\ In2(port_host_blacklist, p.proto_name, p.dport0)
       /\ p.dst_ip0 \in port_host_blacklist[p.proto_name][p.dport0]

\* the first two conjuncts of the FTP active mode condition
FtpEndpointsLocal(p) ==
    /\ p.dst_ip0 \in ip_addrs[p.ipver] /\ ~StartsWith127(p.dst_ip0)
    /\ p.src_ip0 \in ip_addrs[p.ipver] /\ ~StartsWith127(p.dst_ip0)

\* variant: the diverter's own packets are not recognised
check_should_ignore_own_unrecognised(p, i, c) ==
    IF ~is_set(config, "redirectalltraffic")
    THEN [ret |-> "True", bl |-> blacklist_ports]
    ELSE IF ProcessRuleMatches(p, c)
    THEN [ret |-> "True", bl |-> blacklist_ports]
    ELSE IF p.proto_name \notin DOMAIN blacklist_ports
    THEN [ret |-> "KeyError", bl |-> blacklist_ports]
    ELSE IF blacklist_ports[p.proto_name] \cap {p.sport0, p.dport0} # {}
    THEN [ret |-> "True", bl |-> blacklist_ports]
    ELSE IF HostRuleMatches(p)
    THEN [ret |-> "True", bl |-> blacklist_ports]
    ELSE [ret |-> "False", bl |-> blacklist_ports]

\* variant: the redirectalltraffic switch is not consulted
check_should_ignore_switch_unread(p, i, c) ==
    IF ProcessRuleMatches(p, c)
    THEN [ret |-> "True", bl |-> blacklist_ports]
    ELSE IF p.proto_name \notin DOMAIN blacklist_ports
    THEN [ret |-> "KeyError", bl |-> blacklist_ports]
    ELSE IF blacklist_ports[p.proto_name] \cap {p.sport0, p.dport0} # {}
    THEN [ret |-> "True", bl |-> blacklist_ports]
    ELSE IF HostRuleMatches(p)
    THEN [ret |-> "True", bl |-> blacklist_ports]
    ELSE IF i # SelfPid
    THEN [ret |-> "False", bl |-> blacklist_ports]
    ELSE [ret |-> "True", bl |-> blacklist_ports]

\* variant: the FTP active-mode rule replaces the blacklisted ports of the
\* protocol instead of appending to them
check_should_ignore_ftp_replaces(p, i, c) ==
    IF ~is_set(config, "redirectalltraffic")
    THEN [ret |-> "True", bl |-> blacklist_ports]
    ELSE IF ProcessRuleMatches(p, c)
    THEN [ret |-> "True", bl |-> blacklist_ports]
    ELSE IF p.proto_name \notin DOMAIN blacklist_ports
    THEN [ret |-> "KeyError", bl |-> blacklist_ports]
    ELSE IF blacklist_ports[p.proto_name] \cap {p.sport0, p.dport0} # {}
    THEN [ret |-> "True", bl |-> blacklist_ports]
    ELSE IF HostRuleMatches(p)
    THEN [ret |-> "True", bl |-> blacklist_ports]
    ELSE IF i # SelfPid
    THEN [ret |-> "False", bl |-> blacklist_ports]
    ELSE IF ~FtpEndpointsLocal(p)
    THEN [ret |-> "True", bl |-> blacklist_ports]
    ELSE IF p.proto_name \notin DOMAIN diverted_ports
    THEN [ret |-> "KeyError", bl |-> blacklist_ports]
    ELSE IF {p.sport0, p.dport0} \cap DOMAIN diverted_ports[p.proto_name] # {}
    THEN [ret |-> "True", bl |-> blacklist_ports]
    ELSE [ret |-> "True",
          bl |-> [blacklist_ports EXCEPT ![p.proto_name] = {p.sport0}]]

\* variant: only the destination port is looked up in blacklist_ports
check_should_ignore_dport_only(p, i, c) ==
    IF ~is_set(config, "redirectalltraffic")
    THEN [ret |-> "True", bl |-> blacklist_ports]
    ELSE IF ProcessRuleMatches(p, c)
    THEN [ret |-> "True", bl |-> blacklist_ports]
    ELSE IF p.proto_name \notin DOMAIN blacklist_ports
    THEN [ret |-> "KeyError", bl |-> blacklist_ports]
    ELSE IF p.dport0 \in blacklist_ports[p.proto_name]
    THEN [ret |-> "True", bl |-> blacklist_ports]
    ELSE IF HostRuleMatches(p)
    THEN [ret |-> "True", bl |-> blacklist_ports]
    ELSE IF i # SelfPid
    THEN [ret |-> "False", bl |-> blacklist_ports]
    ELSE IF ~FtpEndpointsLocal(p)
    THEN [ret |-> "True", bl |-> blacklist_ports]
    ELSE IF p.proto_name \notin DOMAIN diverted_ports
    THEN [ret |-> "KeyError", bl |-> blacklist_ports]
    ELSE IF {p.sport0, p.dport0} \cap DOMAIN diverted_ports[p.proto_name] # {}
    THEN [ret |-> "True", bl |-> blacklist_ports]
    ELSE [ret |-> "True",
          bl |-> [blacklist_ports EXCEPT ![p.proto_name] = @ \cup {p.sport0}]]

check_should_ignore(p, i, c) ==
    IF ~is_set(config, "redirectalltraffic")
    THEN [ret |-> "True", bl |-> blacklist_ports]
    ELSE IF ProcessRuleMatches(p, c)
    THEN [ret |-> "True", bl |-> blacklist_ports]
    ELSE IF p.proto_name \notin DOMAIN blacklist_ports
    THEN [ret |-> "KeyError", bl |-> blacklist_ports]
    ELSE IF blacklist_ports[p.proto_name] \cap {p.sport0, p.dport0} # {}
    THEN [ret |-> "True", bl |-> blacklist_ports]
    ELSE IF HostRuleMatches(p)
    THEN [ret |-> "True", bl |-> blacklist_ports]
    ELSE IF i # SelfPid
    THEN [ret |-> "False", bl |-> blacklist_ports]
    ELSE IF ~FtpEndpointsLocal(p)
    THEN [ret |-> "True", bl |-> blacklist_ports]
    ELSE IF p.proto_name \notin DOMAIN diverted_ports
    THEN [ret |-> "KeyError", bl |-> blacklist_ports]
    ELSE IF {p.sport0, p.dport0} \cap DOMAIN diverted_ports[p.proto_name] # {}
    THEN [ret |-> "True", bl |-> blacklist_ports]
    ELSE [ret |-> "True",
          bl |-> [blacklist_ports EXCEPT ![p.proto_name] = @ \cup {p.sport0}]]

(***************************************************************************)
(* decide_redir_port and the lookups of maybe_redir_port around it.        *)
(***************************************************************************)
\* self.diverted_ports.get(pkt.proto_name, [])
bound_ports_of(p) ==
    IF p.proto_name \in DOMAIN diverted_ports
    THEN diverted_ports[p.proto_name] ELSE EmptyDict

\* variant: the locality of the destination IP decides, not the source's
decide_redir_port_dst_local(p, bound_ports) ==
    LET b == p.dst_ip \in ip_addrs[p.ipver]
        c == p.sport \in DOMAIN bound_ports
        d == p.dport \in DOMAIN bound_ports
    IN  (~b /\ ~d) \/ (~c /\ ~d)

\* variant: whether the destination port is bound is not looked at
decide_redir_port_dport_unread(p, bound_ports) ==
    LET a == p.src_ip \in ip_addrs[p.ipver]
        c == p.sport \in DOMAIN bound_ports
    IN  ~a \/ ~c

decide_redir_port(p, bound_ports) ==
    LET a == p.src_ip \in ip_addrs[p.ipver]
        c == p.sport \in DOMAIN bound_ports
        d == p.dport \in DOMAIN bound_ports
    IN  (~a /\ ~d) \/ (~c /\ ~d)

\* bound_ports.get(pkt.dport) is True
\* variant: the hidden flag of a bound port is not looked at
dport_hidden_listener_never(p, bound_ports) == FALSE

dport_hidden_listener(p, bound_ports) ==
    p.dport \in DOMAIN bound_ports /\ bound_ports[p.dport] = TRUE

\* self.default_listener.get(pkt.proto_name); falsy when None or 0
default_of(p) ==
    IF p.proto_name \in DOMAIN default_listener
    THEN default_listener[p.proto_name] ELSE NoPort

Truthy(port) == port # NoPort /\ port # 0

\* crit.first_packet_new_session
first_packet_new_session(p) ==
    ~(p.sport \in DOMAIN sessions /\ sessions[p.sport] = <<p.dst_ip, p.dport>>)

(***************************************************************************)
(* Locks (threading.Lock): acquire waits until the lock is free.           *)
(***************************************************************************)
\* variant: acquire succeeds whoever holds the lock
Acquire_unguarded(t, l) == lock' = [lock EXCEPT ![l] = t]

Acquire(t, l) == lock[l] = 0 /\ lock' = [lock EXCEPT ![l] = t]

Release(t, l) == lock[l] = t /\ lock' = [lock EXCEPT ![l] = 0]

Goto(t, label) == pc' = [pc EXCEPT ![t] = label]

(***************************************************************************)
(* DiverterBase.__init__: both parsers, then the network checks of the OS  *)
(* mixin (net_ok: an adapter with an IP address exists).                   *)
(***************************************************************************)
InitStatus(lp, dp, net_ok) ==
    IF lp.status # "ok" THEN lp.status
    ELSE IF dp.status # "ok" THEN dp.status
    ELSE IF ~net_ok THEN "fatal"
    ELSE "running"

DiverterInit ==
    /\ phase = "init"
    /\ \E net_ok \in BOOLEAN :
         LET lp == parse_listeners_config(config.listeners)
             dp == parse_diverter_config(config)
         IN  /\ phase' = InitStatus(lp, dp, net_ok)
             /\ diverted_ports' = lp.diverted_ports
             /\ port_process_whitelist' = lp.port_process_whitelist
             /\ port_process_blacklist' = lp.port_process_blacklist
             /\ port_host_whitelist' = lp.port_host_whitelist
             /\ port_host_blacklist' = lp.port_host_blacklist
             /\ port_execute' = lp.port_execute
             /\ single_host_mode' = dp.single_host_mode
             /\ default_listener' = dp.default_listener
             /\ blacklist_ports' = dp.blacklist_ports
             /\ blacklist_processes' = dp.blacklist_processes
             /\ whitelist_processes' = dp.whitelist_processes
             /\ pcap_enabled' = dp.pcap_enabled
    /\ UNCHANGED <<config, pcap, tables, lock, executed, npkts, pc, pkt, pid,
                   comm>>

(***************************************************************************)
(* handle_pkt.  The capture backend hands a datagram to a free thread.     *)
(***************************************************************************)
\* step 4: the second capture write, when the packet was mangled
AfterStages(p) == IF p.mangled THEN "write_pcap_mangled" ELSE "done"

\* variant: crit.is_loopback0, the pristine addresses decide
is_loopback_pristine(p) == p.src_ip0 = loopback_ip /\ p.dst_ip0 = loopback_ip

\* crit.is_loopback
is_loopback(p) == p.src_ip = loopback_ip /\ p.dst_ip = loopback_ip

\* step 3: the layer 4 callbacks run for a named protocol unless loopback
AfterL3(p) ==
    IF p.proto_name # None /\ ~is_loopback(p) THEN "maybe_redir_port"
    ELSE AfterStages(p)

Ingress(t, raw) ==
    /\ phase = "running"
    /\ pc[t] = "idle"
    /\ npkts < MaxPkts
    /\ npkts' = npkts + 1
    /\ pkt' = [pkt EXCEPT ![t] = PacketCtx(npkts + 1, raw)]
    /\ Goto(t, "write_pcap_initial")
    /\ UNCHANGED <<phase, config, policy, blacklist_ports, pcap, tables,
                   lock, executed, pid, comm>>

\* write_pcap: nothing to do without a capture file, else take pcap_lock
write_pcap_enter(t) ==
    /\ pc[t] \in {"write_pcap_initial", "write_pcap_mangled"}
    /\ IF pcap_enabled
       THEN /\ Acquire(t, "pcap_lock")
            /\ Goto(t, IF pc[t] = "write_pcap_initial"
                       THEN "writepkt_initial" ELSE "writepkt_mangled")
       ELSE /\ Goto(t, IF pc[t] = "write_pcap_initial"
                       THEN "parsed" ELSE "done")
            /\ UNCHANGED lock
    /\ UNCHANGED <<phase, config, policy, blacklist_ports, pcap, tables,
                   executed, npkts, pkt, pid, comm>>

write_pcap_record(p) == <<p.id, octets(p)>>

write_pcap(t) ==
    /\ pc[t] \in {"writepkt_initial", "writepkt_mangled"}
    /\ pcap' = Append(pcap, write_pcap_record(pkt[t]))
    /\ Release(t, "pcap_lock")
    /\ Goto(t, IF pc[t] = "writepkt_initial" THEN "parsed" ELSE "done")
    /\ UNCHANGED <<phase, config, policy, blacklist_ports, tables, executed,
                   npkts, pkt, pid, comm>>

\* the parse check and get_pid_comm; the layer 3 chain starts
handle_pkt_parsed(t, pc_) ==
    /\ pc[t] = "parsed"
    /\ IF ~pkt[t].parsed
       THEN /\ Goto(t, AfterStages(pkt[t]))
            /\ UNCHANGED <<pid, comm>>
       ELSE /\ pid' = [pid EXCEPT ![t] = pc_[1]]
            /\ comm' = [comm EXCEPT ![t] = pc_[2]]
            /\ Goto(t, "maybe_redir_ip")
    /\ UNCHANGED <<phase, config, policy, blacklist_ports, pcap, tables,
                   lock, executed, npkts, pkt>>

(***************************************************************************)
(* maybe_redir_ip                                                          *)
(***************************************************************************)
maybe_redir_ip_ignore(t) ==
    /\ pc[t] = "maybe_redir_ip"
    /\ LET r == check_should_ignore(pkt[t], pid[t], comm[t])
       IN  /\ blacklist_ports' = r.bl
           /\ Goto(t, CASE r.ret = "KeyError" -> "raised"
                        [] r.ret = "True" -> "maybe_fixup_srcip"
                        [] r.ret = "False" -> "redir_ip_lock")
    /\ UNCHANGED <<phase, config, policy, pcap, tables, lock, executed,
                   npkts, pkt, pid, comm>>

maybe_redir_ip_acquire(t) ==
    /\ pc[t] = "redir_ip_lock"
    /\ Acquire(t, "ip_fwd_table_lock")
    /\ Goto(t, "redir_ip_locked")
    /\ UNCHANGED <<phase, config, policy, blacklist_ports, pcap, tables,
                   executed, npkts, pkt, pid, comm>>

\* variant: the network mode is not consulted
redir_ip_condition_any_mode(p) == p.dst_ip \notin ip_addrs[p.ipver]

\* Condition 1
redir_ip_condition(p) ==
    single_host_mode /\ p.dst_ip \notin ip_addrs[p.ipver]

\* variant: the destination is recorded after it has been rewritten
redir_ip_table_after_rewrite(p) ==
    IF redir_ip_condition(p)
    THEN Put(ip_fwd_table, skey(p),
             getNewDestinationIp(config.platform, p.src_ip))
    ELSE Del(ip_fwd_table, skey(p))

\* variant: the else branch leaves a stale entry in place
redir_ip_table_keep_stale(p) ==
    IF redir_ip_condition(p) THEN Put(ip_fwd_table, skey(p), p.dst_ip)
    ELSE ip_fwd_table

\* the table after the locked block of either branch
redir_ip_table(p) ==
    IF redir_ip_condition(p) THEN Put(ip_fwd_table, skey(p), p.dst_ip)
    ELSE Del(ip_fwd_table, skey(p))

\* the packet after the stage
redir_ip_packet(p) ==
    IF redir_ip_condition(p)
    THEN set_dst_ip(p, getNewDestinationIp(config.platform, p.src_ip))
    ELSE p

maybe_redir_ip(t) ==
    /\ pc[t] = "redir_ip_locked"
    /\ ip_fwd_table' = redir_ip_table(pkt[t])
    /\ Release(t, "ip_fwd_table_lock")
    /\ pkt' = [pkt EXCEPT ![t] = redir_ip_packet(pkt[t])]
    /\ Goto(t, "maybe_fixup_srcip")
    /\ UNCHANGED <<phase, config, policy, blacklist_ports, pcap,
                   port_fwd_table, ignore_table, sessions, executed, npkts,
                   pid, comm>>

(***************************************************************************)
(* maybe_fixup_srcip                                                       *)
(***************************************************************************)
maybe_fixup_srcip_acquire(t) ==
    /\ pc[t] = "maybe_fixup_srcip"
    /\ Acquire(t, "ip_fwd_table_lock")
    /\ Goto(t, "fixup_srcip_locked")
    /\ UNCHANGED <<phase, config, policy, blacklist_ports, pcap, tables,
                   executed, npkts, pkt, pid, comm>>

\* variant: the table is looked up by the source endpoint
fixup_srcip_packet_by_skey(p) ==
    IF single_host_mode /\ skey(p) \in DOMAIN ip_fwd_table
    THEN set_src_ip(p, ip_fwd_table[skey(p)])
    ELSE p

\* Condition 4
fixup_srcip_packet(p) ==
    IF single_host_mode /\ dkey(p) \in DOMAIN ip_fwd_table
    THEN set_src_ip(p, ip_fwd_table[dkey(p)])
    ELSE p

maybe_fixup_srcip(t) ==
    /\ pc[t] = "fixup_srcip_locked"
    /\ pkt' = [pkt EXCEPT ![t] = fixup_srcip_packet(pkt[t])]
    /\ Release(t, "ip_fwd_table_lock")
    /\ Goto(t, AfterL3(fixup_srcip_packet(pkt[t])))
    /\ UNCHANGED <<phase, config, policy, blacklist_ports, pcap, tables,
                   executed, npkts, pid, comm>>

(***************************************************************************)
(* maybe_redir_port                                                        *)
(***************************************************************************)
\* A: no default listener for the protocol, else C: look dkey up
maybe_redir_port_enter(t) ==
    /\ pc[t] = "maybe_redir_port"
    /\ IF ~Truthy(default_of(pkt[t]))
       THEN /\ Goto(t, "maybe_fixup_sport")
            /\ UNCHANGED lock
       ELSE /\ Acquire(t, "port_fwd_table_lock")
            /\ Goto(t, "redir_port_found")
    /\ UNCHANGED <<phase, config, policy, blacklist_ports, pcap, tables,
                   executed, npkts, pkt, pid, comm>>

\* D and Condition 2: is the packet to be redirected?
redir_port_condition(p) ==
    \/ dport_hidden_listener(p, bound_ports_of(p))
    \/ decide_redir_port(p, bound_ports_of(p))

\* variant: Pre-condition 1 (the destination key is in port_fwd) is skipped
redir_port_after_found_unchecked(p) ==
    IF p.proto_name \notin DOMAIN diverted_ports THEN "raised"
    ELSE IF redir_port_condition(p) THEN "redir_port_ignore_lock"
    ELSE "redir_port_stale_lock"

\* where the stage goes once found is known; [].get raises AttributeError
redir_port_after_found(p) ==
    IF dkey(p) \in DOMAIN port_fwd_table THEN "maybe_fixup_sport"
    ELSE IF p.proto_name \notin DOMAIN diverted_ports THEN "raised"
    ELSE IF redir_port_condition(p) THEN "redir_port_ignore_lock"
    ELSE "redir_port_stale_lock"

maybe_redir_port_found(t) ==
    /\ pc[t] = "redir_port_found"
    /\ Release(t, "port_fwd_table_lock")
    /\ Goto(t, redir_port_after_found(pkt[t]))
    /\ UNCHANGED <<phase, config, policy, blacklist_ports, pcap, tables,
                   executed, npkts, pkt, pid, comm>>

maybe_redir_port_ignore_acquire(t) ==
    /\ pc[t] = "redir_port_ignore_lock"
    /\ Acquire(t, "ignore_table_lock")
    /\ Goto(t, "redir_port_ignore_locked")
    /\ UNCHANGED <<phase, config, policy, blacklist_ports, pcap, tables,
                   executed, npkts, pkt, pid, comm>>

\* variant: the ignore table is not consulted
conversation_ignored_never(p) == FALSE

\* is this conversation already being ignored?
conversation_ignored(p) ==
    dkey(p) \in DOMAIN ignore_table /\ ignore_table[dkey(p)] = p.sport

\* variant: the early return for an ignored conversation leaves
\* ignore_table_lock held
maybe_redir_port_ignored_holding(t) ==
    /\ pc[t] = "redir_port_ignore_locked"
    /\ lock["ignore_table_lock"] = t
    /\ lock' = IF conversation_ignored(pkt[t]) THEN lock
               ELSE [lock EXCEPT !["ignore_table_lock"] = 0]
    /\ Goto(t, IF conversation_ignored(pkt[t]) THEN "maybe_fixup_sport"
               ELSE "redir_port_check")
    /\ UNCHANGED <<phase, config, policy, blacklist_ports, pcap, tables,
                   executed, npkts, pkt, pid, comm>>

maybe_redir_port_ignored(t) ==
    /\ pc[t] = "redir_port_ignore_locked"
    /\ Release(t, "ignore_table_lock")
    /\ Goto(t, IF conversation_ignored(pkt[t]) THEN "maybe_fixup_sport"
               ELSE "redir_port_check")
    /\ UNCHANGED <<phase, config, policy, blacklist_ports, pcap, tables,
                   executed, npkts, pkt, pid, comm>>

\* variant: maybe_redir_port goes on to redirect without asking
\* check_should_ignore
maybe_redir_port_check_skipped(t) ==
    /\ pc[t] = "redir_port_check"
    /\ Goto(t, "redir_port_fwd_lock")
    /\ UNCHANGED <<phase, config, policy, blacklist_ports, pcap, tables,
                   lock, executed, npkts, pkt, pid, comm>>

maybe_redir_port_check(t) ==
    /\ pc[t] = "redir_port_check"
    /\ LET r == check_should_ignore(pkt[t], pid[t], comm[t])
       IN  /\ blacklist_ports' = r.bl
           /\ Goto(t, CASE r.ret = "KeyError" -> "raised"
                        [] r.ret = "True" -> "redir_port_mark_lock"
                        [] r.ret = "False" -> "redir_port_fwd_lock")
    /\ UNCHANGED <<phase, config, policy, pcap, tables, lock, executed,
                   npkts, pkt, pid, comm>>

maybe_redir_port_mark_acquire(t) ==
    /\ pc[t] = "redir_port_mark_lock"
    /\ Acquire(t, "ignore_table_lock")
    /\ Goto(t, "redir_port_mark_locked")
    /\ UNCHANGED <<phase, config, policy, blacklist_ports, pcap, tables,
                   executed, npkts, pkt, pid, comm>>

maybe_redir_port_mark(t) ==
    /\ pc[t] = "redir_port_mark_locked"
    /\ ignore_table' = Put(ignore_table, skey(pkt[t]), pkt[t].dport)
    /\ Release(t, "ignore_table_lock")
    /\ Goto(t, "maybe_fixup_sport")
    /\ UNCHANGED <<phase, config, policy, blacklist_ports, pcap,
                   port_fwd_table, ip_fwd_table, sessions, executed, npkts,
                   pkt, pid, comm>>

maybe_redir_port_fwd_acquire(t) ==
    /\ pc[t] = "redir_port_fwd_lock"
    /\ Acquire(t, "port_fwd_table_lock")
    /\ Goto(t, "redir_port_fwd_locked")
    /\ UNCHANGED <<phase, config, policy, blacklist_ports, pcap, tables,
                   executed, npkts, pkt, pid, comm>>

\* the entry recorded for a redirected packet
redir_port_table(p) == Put(port_fwd_table, skey(p), p.dport)

\* the redirected packet
\* variant: the rewrite reaches the pristine destination port as well
redir_port_packet_pristine(p) ==
    [set_dport(p, default_of(p)) EXCEPT !.dport0 = default_of(p)]

redir_port_packet(p) == set_dport(p, default_of(p))

maybe_redir_port(t) ==
    /\ pc[t] = "redir_port_fwd_locked"
    /\ port_fwd_table' = redir_port_table(pkt[t])
    /\ Release(t, "port_fwd_table_lock")
    /\ pkt' = [pkt EXCEPT ![t] = redir_port_packet(pkt[t])]
    /\ Goto(t, "redir_port_session")
    /\ UNCHANGED <<phase, config, policy, blacklist_ports, pcap,
                   ip_fwd_table, ignore_table, sessions, executed, npkts,
                   pid, comm>>

maybe_redir_port_stale_acquire(t) ==
    /\ pc[t] = "redir_port_stale_lock"
    /\ Acquire(t, "port_fwd_table_lock")
    /\ Goto(t, "redir_port_stale_locked")
    /\ UNCHANGED <<phase, config, policy, blacklist_ports, pcap, tables,
                   executed, npkts, pkt, pid, comm>>

delete_stale_port_fwd_key(t) ==
    /\ pc[t] = "redir_port_stale_locked"
    /\ port_fwd_table' = Del(port_fwd_table, skey(pkt[t]))
    /\ Release(t, "port_fwd_table_lock")
    /\ Goto(t, "redir_port_session")
    /\ UNCHANGED <<phase, config, policy, blacklist_ports, pcap,
                   ip_fwd_table, ignore_table, sessions, executed, npkts,
                   pkt, pid, comm>>

\* the read of sessions by crit.first_packet_new_session
maybe_redir_port_session(t) ==
    /\ pc[t] = "redir_port_session"
    /\ Goto(t, IF first_packet_new_session(pkt[t]) THEN "addSession"
               ELSE "maybe_fixup_sport")
    /\ UNCHANGED <<phase, config, policy, blacklist_ports, pcap, tables,
                   lock, executed, npkts, pkt, pid, comm>>

\* build_cmd: the command of the packet's current dport, << >> if none
build_cmd(p, i, c) ==
    IF In2(port_execute, p.proto_name, p.dport)
    THEN build_cmd_tmpl(port_execute[p.proto_name][p.dport], i, c, p.src_ip,
                        p.sport, p.dst_ip, p.dport)
    ELSE << >>

\* maybeExecuteCmd: the command handed to execute_detached, << >> if none
maybeExecuteCmd(p, i, c) ==
    IF i = None THEN << >>
    ELSE IF p.proto_name \notin DOMAIN port_execute THEN << >>
    ELSE IF \/ p.dport \in DOMAIN port_execute[p.proto_name]
            \/ /\ Truthy(default_of(p))
               /\ default_of(p) \in DOMAIN port_execute[p.proto_name]
    THEN build_cmd(p, i, c)
    ELSE << >>

\* addSession, then maybeExecuteCmd; Popen may fail (popen_ok), and an
\* exception of _build_cmd other than KeyError leaves the stage
addSession(t, popen_ok) ==
    /\ pc[t] = "addSession"
    /\ sessions' = Put(sessions, pkt[t].sport, <<pkt[t].dst_ip, pkt[t].dport>>)
    /\ LET cmd == maybeExecuteCmd(pkt[t], pid[t], comm[t])
       IN  /\ executed' = IF cmd \notin {<< >>, <<"IndexError">>} /\ popen_ok
                          THEN Append(executed, <<pkt[t].id, cmd>>)
                          ELSE executed
           /\ Goto(t, IF cmd = <<"IndexError">> THEN "raised"
                      ELSE "maybe_fixup_sport")
    /\ UNCHANGED <<phase, config, policy, blacklist_ports, pcap,
                   port_fwd_table, ip_fwd_table, ignore_table, lock, npkts,
                   pkt, pid, comm>>

(***************************************************************************)
(* maybe_fixup_sport                                                       *)
(***************************************************************************)
maybe_fixup_sport_acquire(t) ==
    /\ pc[t] = "maybe_fixup_sport"
    /\ Acquire(t, "port_fwd_table_lock")
    /\ Goto(t, "fixup_sport_locked")
    /\ UNCHANGED <<phase, config, policy, blacklist_ports, pcap, tables,
                   executed, npkts, pkt, pid, comm>>

\* self.port_fwd_table.get(pkt.dkey)
fixup_sport_lookup(p) ==
    IF dkey(p) \in DOMAIN port_fwd_table THEN port_fwd_table[dkey(p)]
    ELSE NoPort

\* Condition 3
fixup_sport_packet(p) ==
    IF Truthy(fixup_sport_lookup(p)) THEN set_sport(p, fixup_sport_lookup(p))
    ELSE p

maybe_fixup_sport(t) ==
    /\ pc[t] = "fixup_sport_locked"
    /\ Release(t, "port_fwd_table_lock")
    /\ pkt' = [pkt EXCEPT ![t] = fixup_sport_packet(pkt[t])]
    /\ Goto(t, AfterStages(fixup_sport_packet(pkt[t])))
    /\ UNCHANGED <<phase, config, policy, blacklist_ports, pcap, tables,
                   executed, npkts, pid, comm>>

(***************************************************************************)
(* The run is over: handle_pkt returned ("done") or an exception left it   *)
(* ("raised"); the backend releases the packet and the thread is free.     *)
(***************************************************************************)
handle_pkt_return(t) ==
    /\ pc[t] \in {"done", "raised"}
    /\ Goto(t, "idle")
    /\ pkt' = [pkt EXCEPT ![t] = NoPkt]
    /\ pid' = [pid EXCEPT ![t] = None]
    /\ comm' = [comm EXCEPT ![t] = None]
    /\ UNCHANGED <<phase, config, policy, blacklist_ports, pcap, tables,
                   lock, executed, npkts>>

(***************************************************************************)
(* Configurations, datagrams and process lookups the model draws from.     *)
(***************************************************************************)
\* the Windows delegate redirects to the external address; capture is on
WindowsConfig ==
    [BaseConfig EXCEPT !.platform = "windows", !.dumppackets = TRUE]

NoRedirectConfig == [BaseConfig EXCEPT !.redirectalltraffic = FALSE]

MultiHostConfig == [BaseConfig EXCEPT !.networkmode = "multihost"]

\* both defaults name the UDP listener and no TCP listener is configured
UdpOnlyConfig ==
    [BaseConfig EXCEPT !.defaulttcplistener = "rawudplistener",
                       !.listeners = <<RawUDP>>,
                       !.dumppackets = TRUE]

Configs == {BaseConfig, WindowsConfig, NoRedirectConfig, MultiHostConfig,
            UdpOnlyConfig}

\* datagrams <<parsed, proto_name, src_ip, sport, dst_ip, dport>>:
\* requests from client port 53 and replies of the listeners to it
\* datagrams from client port 53 towards a service port
Requests(proto, srcs, dsts, dports) ==
    {<<TRUE, proto, s, 53, d, dp>> : s \in srcs, d \in dsts, dp \in dports}

\* datagrams from a listener port towards client port 53
Replies(proto, srcs, sports, dsts) ==
    {<<TRUE, proto, s, sp, d, 53>> : s \in srcs, sp \in sports, d \in dsts}

TCPPackets ==
    Requests("TCP", IPs, IPs, {53})
    \cup Requests("TCP", {LocalIp}, {ForeignIp}, {0, 80})
    \cup Requests("TCP", {ForeignIp}, {LocalIp}, {80})
    \cup Replies("TCP", {LocalIp, LoopbackIp}, {1337}, {LocalIp, ForeignIp})
    \cup Replies("TCP", {LocalIp}, {80}, {ForeignIp})

UDPPackets ==
    Requests("UDP", {LocalIp}, {ForeignIp}, {53})
    \cup Replies("UDP", {LoopbackIp}, {1337}, {LocalIp})

\* ICMP, a parsed datagram of another protocol, and one that failed to parse
OtherPackets ==
    {<<TRUE, "ICMP", LocalIp, 0, ForeignIp, 0>>,
     <<TRUE, None, LocalIp, 0, ForeignIp, 0>>,
     <<FALSE, None, None, 0, None, 0>>}

Packets == TCPPackets \cup UDPPackets \cup OtherPackets

\* get_pid_comm: nothing found, or the diverter's own process
PidComms == {<<None, None>>, <<SelfPid, "fakenet">>}

(***************************************************************************)
(* The specification: one thread runs the pipeline, packet after packet.   *)
(***************************************************************************)
InitWith(cfgs) ==
    /\ phase = "init"
    /\ config \in cfgs
    /\ single_host_mode = TRUE
    /\ default_listener = EmptyDict
    /\ diverted_ports = EmptyDict
    /\ blacklist_ports = [p \in {"TCP", "UDP"} |-> {}]
    /\ blacklist_processes = {}
    /\ whitelist_processes = {}
    /\ port_process_whitelist = EmptyDict
    /\ port_process_blacklist = EmptyDict
    /\ port_host_whitelist = EmptyDict
    /\ port_host_blacklist = EmptyDict
    /\ port_execute = EmptyDict
    /\ pcap_enabled = FALSE
    /\ pcap = << >>
    /\ port_fwd_table = EmptyDict
    /\ ip_fwd_table = EmptyDict
    /\ ignore_table = EmptyDict
    /\ sessions = EmptyDict
    /\ lock = [l \in LockNames |-> 0]
    /\ executed = << >>
    /\ npkts = 0
    /\ pc = [t \in Threads |-> "idle"]
    /\ pkt = [t \in Threads |-> NoPkt]
    /\ pid = [t \in Threads |-> None]
    /\ comm = [t \in Threads |-> None]

Step(t) ==
    \/ write_pcap_enter(t)
    \/ write_pcap(t)
    \/ \E pc_ \in PidComms : handle_pkt_parsed(t, pc_)
    \/ maybe_redir_ip_ignore(t)
    \/ maybe_redir_ip_acquire(t)
    \/ maybe_redir_ip(t)
    \/ maybe_fixup_srcip_acquire(t)
    \/ maybe_fixup_srcip(t)
    \/ maybe_redir_port_enter(t)
    \/ maybe_redir_port_found(t)
    \/ maybe_redir_port_ignore_acquire(t)
    \/ maybe_redir_port_ignored(t)
    \/ maybe_redir_port_check(t)
    \/ maybe_redir_port_mark_acquire(t)
    \/ maybe_redir_port_mark(t)
    \/ maybe_redir_port_fwd_acquire(t)
    \/ maybe_redir_port(t)
    \/ maybe_redir_port_stale_acquire(t)
    \/ delete_stale_port_fwd_key(t)
    \/ maybe_redir_port_session(t)
    \/ \E popen_ok \in BOOLEAN : addSession(t, popen_ok)
    \/ maybe_fixup_sport_acquire(t)
    \/ maybe_fixup_sport(t)
    \/ handle_pkt_return(t)

Init == InitWith(Configs)

Next ==
    \/ DiverterInit
    \/ \E t \in SeqThreads : \E raw \in Packets : Ingress(t, raw)
    \/ \E t \in SeqThreads : Step(t)

Spec == Init /\ [][Next]_vars

(***************************************************************************)
(* decide_redir_port applied to every combination of addresses and ports,  *)
(* under the listeners of BaseConfig.                                      *)
(***************************************************************************)
DecidePackets ==
    {<<TRUE, "TCP", s, sp, d, dp>> :
        s \in IPs, sp \in Ports, d \in IPs, dp \in Ports}

InitDecide ==
    /\ phase = "running"
    /\ config = BaseConfig
    /\ single_host_mode = TRUE
    /\ default_listener = parse_diverter_config(BaseConfig).default_listener
    /\ diverted_ports = parse_listeners_config(BaseListeners).diverted_ports
    /\ blacklist_ports = [p \in {"TCP", "UDP"} |-> {}]
    /\ blacklist_processes = {}
    /\ whitelist_processes = {}
    /\ port_process_whitelist = EmptyDict
    /\ port_process_blacklist = EmptyDict
    /\ port_host_whitelist = EmptyDict
    /\ port_host_blacklist = EmptyDict
    /\ port_execute = EmptyDict
    /\ pcap_enabled = FALSE
    /\ pcap = << >>
    /\ port_fwd_table = EmptyDict
    /\ ip_fwd_table = EmptyDict
    /\ ignore_table = EmptyDict
    /\ sessions = EmptyDict
    /\ lock = [l \in LockNames |-> 0]
    /\ executed = << >>
    /\ npkts = 1
    /\ pc = [t \in Threads |-> IF t \in SeqThreads THEN "decide_redir_port"
                               ELSE "idle"]
    /\ \E raw \in DecidePackets :
         pkt = [t \in Threads |-> IF t \in SeqThreads THEN PacketCtx(1, raw)
                                  ELSE NoPkt]
    /\ pid = [t \in Threads |-> None]
    /\ comm = [t \in Threads |-> None]

ApplyDecide(t) ==
    /\ pc[t] = "decide_redir_port"
    /\ Goto(t, IF decide_redir_port(pkt[t], bound_ports_of(pkt[t]))
               THEN "decide_true" ELSE "decide_false")
    /\ UNCHANGED <<phase, config, policy, blacklist_ports, pcap, tables,
                   lock, executed, npkts, pkt, pid, comm>>

NextDecide == \E t \in SeqThreads : ApplyDecide(t)

SpecDecide == InitDecide /\ [][NextDecide]_vars

(***************************************************************************)
(* Properties.                                                             *)
(***************************************************************************)
IsLocal(ip) == ip \in {LocalIp, LoopbackIp}

IsBound(proto, port) == In2(diverted_ports, proto, port)

\* the packet's source endpoint key as it was at ingress
skey0(p) == <<p.proto_name, p.src_ip0, p.sport0>>

dkey0(p) == <<p.proto_name, p.dst_ip0, p.dport0>>

\* C1: decide_redir_port is true exactly when the destination port is not
\* bound and (the source IP is not local or the source port is not bound),
\* whatever the locality of the destination IP.
C1_DecideRedirPort ==
    \A t \in SeqThreads :
        pc[t] \in {"decide_true", "decide_false"} =>
            (pc[t] = "decide_true" <=>
                /\ ~IsBound("TCP", pkt[t].dport)
                /\ (~IsLocal(pkt[t].src_ip) \/ ~IsBound("TCP", pkt[t].sport)))

\* foreign:80 -> local:53 redirects
C1_Witness ==
    \E t \in SeqThreads :
        /\ pc[t] = "decide_true"
        /\ pkt[t].src_ip = ForeignIp /\ pkt[t].sport = 80
        /\ pkt[t].dst_ip = LocalIp /\ pkt[t].dport = 53

\* C2: the reply from (new_dest_ip(C), default port) to a local client C
\* whose request was IP- and port-redirected ends the pipeline with src_ip
\* the foreign address and sport the port C targeted, its destination
\* unchanged.
C2_RoundTrip ==
    \A t \in SeqThreads :
        LET p == pkt[t]
            k == dkey0(p)
        IN  ( /\ pc[t] = "done"
              /\ single_host_mode
              /\ p.proto_name \in {"TCP", "UDP"}
              /\ IsLocal(p.dst_ip0)
              /\ p.src_ip0 = getNewDestinationIp(config.platform, p.dst_ip0)
              /\ p.sport0 = default_listener[p.proto_name]
              /\ k \in DOMAIN ip_fwd_table
              /\ k \in DOMAIN port_fwd_table )
            => /\ p.src_ip = ip_fwd_table[k]
               /\ p.sport = port_fwd_table[k]
               /\ p.dst_ip = p.dst_ip0
               /\ p.dport = p.dport0

\* C3: when maybe_redir_port has rewritten dport, port_fwd maps the source
\* endpoint key of ingress to the dport of ingress and dport is the default
\* listener's port.
C3_RedirPortRecordsIngress ==
    \A t \in SeqThreads :
        LET p == pkt[t]
        IN  (pc[t] = "redir_port_session" /\ p.dport # p.dport0)
            => /\ skey0(p) \in DOMAIN port_fwd_table
               /\ port_fwd_table[skey0(p)] = p.dport0
               /\ p.dport = default_listener[p.proto_name]

\* C4: when maybe_redir_ip has rewritten dst_ip, ip_fwd maps the source
\* endpoint key of ingress to the foreign dst_ip of ingress, and dst_ip is
\* the OS delegate's address for the packet's source IP.
C4_RedirIpRecordsIngress ==
    \A t \in SeqThreads :
        LET p == pkt[t]
        IN  (pc[t] = "maybe_fixup_srcip" /\ p.mangled)
            => /\ skey0(p) \in DOMAIN ip_fwd_table
               /\ ip_fwd_table[skey0(p)] = p.dst_ip0
               /\ ~IsLocal(p.dst_ip0)
               /\ p.dst_ip = getNewDestinationIp(config.platform, p.src_ip0)
               /\ p.dst_ip # p.dst_ip0

C4_Witness ==
    \E t \in SeqThreads :
        /\ pc[t] = "maybe_fixup_srcip"
        /\ pkt[t].mangled
        /\ pkt[t].dst_ip0 = ForeignIp
        /\ pkt[t].dst_ip = LocalIp

\* C5: maybe_fixup_sport sets sport to port_fwd[dkey] if and only if dkey
\* is a key of port_fwd, whatever the recorded port (0 included), leaves
\* the packet unchanged otherwise, and never changes port_fwd.
C5_FixupSportIffKey ==
    [][\A t \in SeqThreads :
         (pc[t] = "fixup_sport_locked" /\ pc'[t] # pc[t]) =>
            /\ port_fwd_table' = port_fwd_table
            /\ pkt'[t] =
                 IF dkey(pkt[t]) \in DOMAIN port_fwd_table
                 THEN [pkt[t] EXCEPT !.sport = port_fwd_table[dkey(pkt[t])],
                                     !.mangled = TRUE]
                 ELSE pkt[t]]_vars

\* C6: in SingleHost mode maybe_fixup_srcip sets src_ip to ip_fwd[dkey] if
\* and only if the packet's current dkey is a key of ip_fwd, leaves the
\* packet unchanged otherwise, and never changes ip_fwd.
C6_FixupSrcIpIffKey ==
    [][\A t \in SeqThreads :
         (single_host_mode /\ pc[t] = "fixup_srcip_locked" /\ pc'[t] # pc[t])
         => /\ ip_fwd_table' = ip_fwd_table
            /\ pkt'[t] =
                 IF dkey(pkt[t]) \in DOMAIN ip_fwd_table
                 THEN [pkt[t] EXCEPT !.src_ip = ip_fwd_table[dkey(pkt[t])],
                                     !.mangled = TRUE]
                 ELSE pkt[t]]_vars

\* the source IP was fixed up through a dkey that an earlier stage rewrote
C6_Witness ==
    \E t \in SeqThreads :
        /\ single_host_mode
        /\ pc[t] = "maybe_redir_port"
        /\ pkt[t].dst_ip # pkt[t].dst_ip0
        /\ pkt[t].src_ip # pkt[t].src_ip0
        /\ pkt[t].src_ip = ip_fwd_table[dkey(pkt[t])]

\* C7: while the pipeline runs a packet of the diverter's own process, no
\* step changes dst_ip or dport and no step adds or changes an entry of
\* ip_fwd or port_fwd.
C7_OwnPacketsNotRedirected ==
    [][\A t \in SeqThreads :
         (pid[t] = SelfPid /\ pc'[t] # "idle") =>
            /\ pkt'[t].dst_ip = pkt[t].dst_ip
            /\ pkt'[t].dport = pkt[t].dport
            /\ \A k \in DOMAIN ip_fwd_table' :
                 k \in DOMAIN ip_fwd_table
                 /\ ip_fwd_table'[k] = ip_fwd_table[k]
            /\ \A k \in DOMAIN port_fwd_table' :
                 k \in DOMAIN port_fwd_table
                 /\ port_fwd_table'[k] = port_fwd_table[k]]_vars

\* a packet of the diverter to a foreign address on an unbound port has
\* passed every stage
C7_Witness ==
    \E t \in SeqThreads :
        /\ pid[t] = SelfPid
        /\ pc[t] = "done"
        /\ pkt[t].sport0 = 53
        /\ pkt[t].dst_ip0 = ForeignIp
        /\ pkt[t].dport0 = 53
        /\ single_host_mode
        /\ is_set(config, "redirectalltraffic")

PcapRecordsOf(id) == {n \in DOMAIN pcap : pcap[n][1] = id}

pristine_octets(p) ==
    <<p.proto_name, p.src_ip0, p.sport0, p.dst_ip0, p.dport0>>

\* C8: with capture enabled, a run that has ended left exactly two records
\* of its packet if the packet is mangled, the pristine octets first and the
\* rewritten octets second, and exactly one record otherwise.
C8_PcapRecordsPerRun ==
    \A t \in SeqThreads :
        (pcap_enabled /\ pc[t] \in {"done", "raised"}) =>
            LET p == pkt[t]
                R == PcapRecordsOf(p.id)
            IN  IF p.mangled
                THEN /\ Cardinality(R) = 2
                     /\ \E m, n \in R :
                          /\ m < n
                          /\ pcap[m][2] = pristine_octets(p)
                          /\ pcap[n][2] = octets(p)
                ELSE /\ Cardinality(R) = 1
                     /\ \A n \in R : pcap[n][2] = octets(p)

\* C9: the pristine fields are the packet's fields at ingress and no step
\* of the run changes them.
C9_PristineSnapshot ==
    [][\A t \in SeqThreads :
         /\ (pc[t] = "idle" /\ pc'[t] # "idle") =>
               pristine_octets(pkt'[t]) = octets(pkt'[t])
         /\ (pc[t] # "idle" /\ pc'[t] # "idle") =>
               pristine_octets(pkt'[t]) = pristine_octets(pkt[t])]_vars

\* a run has ended with both dst_ip and dport rewritten
C9_Witness ==
    \E t \in SeqThreads :
        /\ pc[t] = "done"
        /\ pkt[t].dst_ip # pkt[t].dst_ip0
        /\ pkt[t].dport # pkt[t].dport0
        /\ pkt[t].dst_ip0 = ForeignIp
        /\ pkt[t].dport0 = 53

\* C10: with redirect_all_traffic false check_should_ignore answers true
\* for every packet, ip_fwd and port_fwd stay empty and no packet field is
\* rewritten.
C10_NoRedirectAllTraffic ==
    (phase = "running" /\ ~is_set(config, "redirectalltraffic")) =>
        /\ ip_fwd_table = EmptyDict
        /\ port_fwd_table = EmptyDict
        /\ \A t \in SeqThreads :
             pc[t] # "idle" =>
                /\ check_should_ignore(pkt[t], pid[t], comm[t]).ret = "True"
                /\ octets(pkt[t]) = pristine_octets(pkt[t])
                /\ ~pkt[t].mangled

\* a run over a packet to a foreign address on an unbound port has ended
C10_Witness ==
    \E t \in SeqThreads :
        /\ phase = "running"
        /\ ~is_set(config, "redirectalltraffic")
        /\ pc[t] = "done"
        /\ pkt[t].proto_name = "TCP"
        /\ pkt[t].dst_ip0 = ForeignIp
        /\ pkt[t].dport0 = 53
        /\ pid[t] = None

(***************************************************************************)
(* check_should_ignore applied to single datagrams under configurations    *)
(* that carry process and host lists.                                      *)
(***************************************************************************)
WithList(l, key, val) ==
    [l EXCEPT !.keys = @ \cup {key},
              !.processwhitelist = IF key = "processwhitelist" THEN val ELSE @,
              !.processblacklist = IF key = "processblacklist" THEN val ELSE @,
              !.hostwhitelist = IF key = "hostwhitelist" THEN val ELSE @,
              !.hostblacklist = IF key = "hostblacklist" THEN val ELSE @]

ProcBlacklistConfig == [BaseConfig EXCEPT !.processblacklist = {"evil"}]

ProcWhitelistConfig == [BaseConfig EXCEPT !.processwhitelist = {"good"}]

PortProcBlacklistConfig ==
    [BaseConfig EXCEPT
        !.listeners =
            <<RawTCP, RawUDP, WithList(HTTP80, "processblacklist", {"evil"})>>]

PortProcWhitelistConfig ==
    [BaseConfig EXCEPT
        !.listeners =
            <<RawTCP, RawUDP, WithList(HTTP80, "processwhitelist", {"good"})>>]

MultiHostProcConfig ==
    [BaseConfig EXCEPT
        !.networkmode = "multihost",
        !.processblacklist = {"evil"},
        !.listeners =
            <<RawTCP, RawUDP, WithList(HTTP80, "processwhitelist", {"good"})>>]

BlacklistPortConfig == [BaseConfig EXCEPT !.blacklistportstcp = {53}]

ProcessConfigs ==
    {BaseConfig, NoRedirectConfig, ProcBlacklistConfig, ProcWhitelistConfig,
     PortProcBlacklistConfig, PortProcWhitelistConfig, MultiHostProcConfig,
     BlacklistPortConfig}

IgnorePackets ==
    {<<TRUE, "TCP", s, sp, d, dp>> :
        s \in IPs, sp \in {53, 80}, d \in IPs, dp \in {53, 80}}
    \cup {<<TRUE, "ICMP", LocalIp, 0, ForeignIp, 0>>}

\* get_pid_comm: nothing found, a pid without a name, named processes, the
\* diverter itself
IgnorePidComms ==
    {<<None, None>>, <<OtherPid, None>>, <<OtherPid, "evil">>,
     <<OtherPid, "good">>, <<SelfPid, "fakenet">>}

IgnoreResults == {"ignore_True", "ignore_False", "ignore_KeyError"}

ApplyIgnore(t, raw, pc_) ==
    /\ phase = "running"
    /\ pc[t] = "idle"
    /\ npkts < MaxPkts
    /\ npkts' = npkts + 1
    /\ LET p == PacketCtx(npkts + 1, raw)
           r == check_should_ignore(p, pc_[1], pc_[2])
       IN  /\ pkt' = [pkt EXCEPT ![t] = p]
           /\ blacklist_ports' = r.bl
           /\ Goto(t, CASE r.ret = "True" -> "ignore_True"
                        [] r.ret = "False" -> "ignore_False"
                        [] OTHER -> "ignore_KeyError")
    /\ pid' = [pid EXCEPT ![t] = pc_[1]]
    /\ comm' = [comm EXCEPT ![t] = pc_[2]]
    /\ UNCHANGED <<phase, config, policy, pcap, tables, lock, executed>>

ApplyIgnoreReturn(t) ==
    /\ pc[t] \in IgnoreResults
    /\ Goto(t, "idle")
    /\ pkt' = [pkt EXCEPT ![t] = NoPkt]
    /\ pid' = [pid EXCEPT ![t] = None]
    /\ comm' = [comm EXCEPT ![t] = None]
    /\ UNCHANGED <<phase, config, policy, blacklist_ports, pcap, tables,
                   lock, executed, npkts>>

InitIgnore == InitWith(ProcessConfigs)

NextIgnore ==
    \/ DiverterInit
    \/ \E t \in SeqThreads : \E raw \in IgnorePackets :
         \E pc_ \in IgnorePidComms : ApplyIgnore(t, raw, pc_)
    \/ \E t \in SeqThreads : ApplyIgnoreReturn(t)

SpecIgnore == InitIgnore /\ [][NextIgnore]_vars

(***************************************************************************)
(* The pipeline under configurations with port and host lists and a hidden *)
(* listener.                                                               *)
(***************************************************************************)
HostBlacklistConfig ==
    [BaseConfig EXCEPT !.hostblacklist = {ForeignIp}, !.dumppackets = TRUE]

PortHostWhitelistConfig ==
    [BaseConfig EXCEPT
        !.listeners =
            <<RawTCP, RawUDP, WithList(HTTP80, "hostwhitelist", {LocalIp})>>]

PortHostBlacklistConfig ==
    [BaseConfig EXCEPT
        !.listeners =
            <<RawTCP, RawUDP, WithList(HTTP80, "hostblacklist", {ForeignIp})>>]

MultiHostHostConfig ==
    [PortHostBlacklistConfig EXCEPT !.networkmode = "multihost"]

BlacklistDportConfig == [BaseConfig EXCEPT !.blacklistportstcp = {0}]

HiddenConfig ==
    [BaseConfig EXCEPT
        !.listeners =
            <<RawTCP, RawUDP,
              [HTTP80 EXCEPT !.keys = @ \cup {"hidden"}, !.hidden = TRUE]>>]

FilterConfigs ==
    {HostBlacklistConfig, PortHostWhitelistConfig, PortHostBlacklistConfig,
     MultiHostHostConfig, BlacklistDportConfig, BlacklistPortConfig,
     HiddenConfig}

InitFilters == InitWith(FilterConfigs)

SpecFilters == InitFilters /\ [][Next]_vars

\* getOriginalDestPort: the lookup the proxy listener makes under
\* port_fwd_table_lock; NoPort stands for None
getOriginalDestPort(orig_src_ip, orig_src_port, proto) ==
    LET orig_src_key == gen_endpoint_key(proto, orig_src_ip, orig_src_port)
    IN  IF orig_src_key \in DOMAIN port_fwd_table
        THEN port_fwd_table[orig_src_key] ELSE NoPort

(***************************************************************************)
(* Startup alone, over configurations that differ in the network mode, the *)
(* redirect switch, the default listeners, the global process lists and    *)
(* the third listener section.                                             *)
(***************************************************************************)
NoProtocolListener == Listener("httplistener80", {"port"}, 80, None)

BadProtocolListener == Listener("httplistener80", PP, 80, "ICMP")

BothProcessListsListener ==
    WithList(WithList(HTTP80, "processwhitelist", {"good"}),
             "processblacklist", {"evil"})

BothHostListsListener ==
    WithList(WithList(HTTP80, "hostwhitelist", {LocalIp}),
             "hostblacklist", {ForeignIp})

ExecuteCmdListener(tmpl) ==
    [HTTP80 EXCEPT !.keys = @ \cup {"executecmd"}, !.executecmd = tmpl]

\* a section without a Port option
PortlessListener == Listener("portless", {"protocol"}, NoPort, "TCP")

PortlessBothListsListener ==
    WithList(WithList(PortlessListener, "processwhitelist", {"good"}),
             "processblacklist", {"evil"})

ThirdListeners ==
    {HTTP80, NoProtocolListener, BadProtocolListener,
     BothProcessListsListener, BothHostListsListener,
     ExecuteCmdListener("ok"), ExecuteCmdListener("badkey"),
     PortlessListener, PortlessBothListsListener}

StartupConfigs ==
    {[BaseConfig EXCEPT
        !.networkmode = nm,
        !.redirectalltraffic = ra,
        !.defaulttcplistener = dt,
        !.defaultudplistener = du,
        !.processwhitelist = gl[1],
        !.processblacklist = gl[2],
        !.listeners = <<RawTCP, RawUDP, l>>] :
        nm \in {"singlehost", "multihost", None, "bogus"},
        ra \in BOOLEAN,
        dt \in {"rawtcplistener", None, "nosuch", "portless"},
        du \in {"rawudplistener", None},
        gl \in {<<{}, {}>>, <<{"good"}, {}>>, <<{"good"}, {"evil"}>>},
        l \in ThirdListeners}

InitStartup == InitWith(StartupConfigs)

NextStartup == DiverterInit

SpecStartup == InitStartup /\ [][NextStartup]_vars

(***************************************************************************)
(* Two threads of the capture backend run the pipeline concurrently.       *)
(***************************************************************************)
ConcConfig == [BaseConfig EXCEPT !.dumppackets = TRUE]

\* a request to an unbound port and a foreign client's to a bound one
ConcPackets ==
    Requests("TCP", {LocalIp}, {ForeignIp}, {53})
    \cup Requests("TCP", {ForeignIp}, {LocalIp}, {80})

InitConc == InitWith({ConcConfig})

NextConc ==
    \/ DiverterInit
    \/ \E t \in Threads : \E raw \in ConcPackets : Ingress(t, raw)
    \/ \E t \in Threads : Step(t)

SpecConc == InitConc /\ [][NextConc]_vars

\* the steps that read or write a table: the position of the thread that
\* is about to take one, and the lock that guards the table
TableAccess ==
    [port_fwd_table_lock |->
        {"redir_port_found", "redir_port_fwd_locked",
         "redir_port_stale_locked", "fixup_sport_locked"},
     ignore_table_lock |->
        {"redir_port_ignore_locked", "redir_port_mark_locked"},
     ip_fwd_table_lock |-> {"redir_ip_locked", "fixup_srcip_locked"},
     pcap_lock |-> {"writepkt_initial", "writepkt_mangled"}]

\* the read of sessions by first_packet_new_session and addSession's write
SessionsAccess == {"redir_port_session", "addSession"}

(***************************************************************************)
(* The pipeline under configurations whose listeners have an ExecuteCmd.   *)
(***************************************************************************)
WithExecuteCmd(l, tmpl) ==
    [l EXCEPT !.keys = @ \cup {"executecmd"}, !.executecmd = tmpl]

\* the command is configured on the default TCP listener only
ExecDefaultConfig ==
    [BaseConfig EXCEPT
        !.dumppackets = TRUE,
        !.listeners = <<WithExecuteCmd(RawTCP, "ok"), RawUDP, HTTP80>>]

\* the command is configured on the listener of port 80 only
ExecPortConfig ==
    [BaseConfig EXCEPT
        !.listeners = <<RawTCP, RawUDP, WithExecuteCmd(HTTP80, "ok")>>]

\* the command of port 80 indexes the fifth character of the source port
ExecIndexConfig ==
    [BaseConfig EXCEPT
        !.listeners = <<RawTCP, RawUDP, WithExecuteCmd(HTTP80, IndexTemplate)>>]

ExecConfigs == {ExecDefaultConfig, ExecPortConfig, ExecIndexConfig}

InitExec == InitWith(ExecConfigs)

SpecExec == InitExec /\ [][Next]_vars

\* C11: in MultiHost mode ip_fwd stays empty and no run has a src_ip or
\* dst_ip that differs from the packet's pristine addresses.
C11_MultiHostNoIpRedirection ==
    (phase = "running" /\ ~single_host_mode) =>
        /\ ip_fwd_table = EmptyDict
        /\ \A t \in SeqThreads :
             pc[t] # "idle" =>
                /\ pkt[t].src_ip = pkt[t].src_ip0
                /\ pkt[t].dst_ip = pkt[t].dst_ip0

\* a MultiHost run over a packet to a foreign address has ended, its port
\* redirected and its addresses untouched
C11_Witness ==
    \E t \in SeqThreads :
        /\ phase = "running"
        /\ ~single_host_mode
        /\ pc[t] = "done"
        /\ pkt[t].dst_ip0 = ForeignIp
        /\ pkt[t].dport # pkt[t].dport0

PortBlacklisted(p) ==
    /\ p.proto_name \in DOMAIN blacklist_ports
    /\ blacklist_ports[p.proto_name] \cap {p.sport0, p.dport0} # {}

\* C12: in SingleHost mode with redirect_all_traffic on, a packet to a port
\* that has a per-listener process blacklist, sent by a known process that
\* is not in that list and meeting no other ignore rule, is not ignored.
C12_PortProcessBlacklistOnlyListed ==
    \A t \in SeqThreads :
        LET p == pkt[t]
        IN  ( /\ pc[t] \in IgnoreResults
              /\ single_host_mode
              /\ is_set(config, "redirectalltraffic")
              /\ In2(port_process_blacklist, p.proto_name, p.dport0)
              /\ comm[t] # None
              /\ comm[t] \notin port_process_blacklist[p.proto_name][p.dport0]
              /\ comm[t] \notin blacklist_processes
              /\ (whitelist_processes = {} \/ comm[t] \in whitelist_processes)
              /\ ~PortBlacklisted(p)
              /\ ~HostRuleMatches(p)
              /\ pid[t] # SelfPid )
            => pc[t] = "ignore_False"

\* C13: process lists ignore a packet only in SingleHost mode and only for
\* a known process name: a name in the global blacklist, a name outside a
\* non-empty global whitelist and a name outside the per-listener whitelist
\* of (proto, pristine dport) are ignored; with an unknown name or in
\* MultiHost mode a packet that meets no port or host rule and is not the
\* diverter's own is not ignored.
C13_ProcessFilters ==
    \A t \in SeqThreads :
        LET p == pkt[t]
            c == comm[t]
            known == single_host_mode /\ c # None
        IN  pc[t] \in IgnoreResults =>
              /\ (known /\ c \in blacklist_processes) => pc[t] = "ignore_True"
              /\ (known /\ whitelist_processes # {}
                        /\ c \notin whitelist_processes)
                    => pc[t] = "ignore_True"
              /\ (known /\ In2(port_process_whitelist, p.proto_name, p.dport0)
                        /\ c \notin
                             port_process_whitelist[p.proto_name][p.dport0])
                    => pc[t] = "ignore_True"
              /\ ( /\ ~known
                   /\ is_set(config, "redirectalltraffic")
                   /\ p.proto_name \in DOMAIN blacklist_ports
                   /\ ~PortBlacklisted(p)
                   /\ ~HostRuleMatches(p)
                   /\ pid[t] # SelfPid )
                    => pc[t] = "ignore_False"

\* MultiHost: a globally blacklisted process to a port whose whitelist does
\* not name it is not ignored
C13_Witness ==
    \E t \in SeqThreads :
        /\ ~single_host_mode
        /\ pc[t] = "ignore_False"
        /\ comm[t] = "evil"
        /\ comm[t] \in blacklist_processes
        /\ In2(port_process_whitelist, pkt[t].proto_name, pkt[t].dport0)

\* C15: check_should_ignore adds the pristine sport to blacklist_ports[proto]
\* exactly when no earlier rule matched, the pid is the diverter's, source
\* and destination are local non-loopback addresses and neither pristine
\* port is bound; otherwise blacklist_ports is left as it was.
C15_FtpActiveModeRule ==
    [][\A t \in SeqThreads :
         (pc[t] = "idle" /\ pc'[t] \in IgnoreResults) =>
            LET p == pkt'[t]
                hit ==
                    /\ is_set(config, "redirectalltraffic")
                    /\ ~ProcessRuleMatches(p, comm'[t])
                    /\ p.proto_name \in DOMAIN blacklist_ports
                    /\ ~PortBlacklisted(p)
                    /\ ~HostRuleMatches(p)
                    /\ pid'[t] = SelfPid
                    /\ IsLocal(p.src_ip0) /\ ~StartsWith127(p.src_ip0)
                    /\ IsLocal(p.dst_ip0) /\ ~StartsWith127(p.dst_ip0)
                    /\ ~IsBound(p.proto_name, p.sport0)
                    /\ ~IsBound(p.proto_name, p.dport0)
            IN  blacklist_ports' =
                  IF hit
                  THEN [blacklist_ports EXCEPT
                          ![p.proto_name] = @ \cup {p.sport0}]
                  ELSE blacklist_ports]_vars

\* C14: in both modes a packet keeps its pristine dst_ip and dport when a
\* pristine port of it is in blacklist_ports[proto], or its pristine dst_ip
\* is in the global host blacklist, or outside the host whitelist of
\* (proto, pristine dport), or inside the host blacklist of it.
C14_PortAndHostFilters ==
    \A t \in SeqThreads :
        LET p == pkt[t]
            port_hit ==
                /\ p.proto_name \in DOMAIN blacklist_ports
                /\ \/ p.sport0 \in blacklist_ports[p.proto_name]
                   \/ p.dport0 \in blacklist_ports[p.proto_name]
            global_hit == p.dst_ip0 \in config.hostblacklist
            whitelist_hit ==
                /\ p.proto_name \in DOMAIN port_host_whitelist
                /\ p.dport0 \in DOMAIN port_host_whitelist[p.proto_name]
                /\ p.dst_ip0 \notin port_host_whitelist[p.proto_name][p.dport0]
            blacklist_hit ==
                /\ p.proto_name \in DOMAIN port_host_blacklist
                /\ p.dport0 \in DOMAIN port_host_blacklist[p.proto_name]
                /\ p.dst_ip0 \in port_host_blacklist[p.proto_name][p.dport0]
        IN  ( /\ phase = "running" /\ pc[t] # "idle" /\ p.parsed
              /\ (port_hit \/ global_hit \/ whitelist_hit \/ blacklist_hit) )
            => (p.dst_ip = p.dst_ip0 /\ p.dport = p.dport0)

\* a foreign destination outside the whitelist of port 80, which would
\* otherwise have been redirected to the local address
C14_Witness ==
    \E t \in SeqThreads :
        /\ pc[t] = "done" /\ single_host_mode /\ pid[t] = None
        /\ In2(port_host_whitelist, pkt[t].proto_name, pkt[t].dport0)
        /\ pkt[t].dst_ip0 = ForeignIp
        /\ pkt[t].dst_ip = ForeignIp

\* C16: when maybe_redir_port has returned for a packet whose dport is bound
\* with the hidden flag, whose destination key is not in port_fwd, that
\* matches no ignore-table entry and for which check_should_ignore is false,
\* the dport is the default listener's and port_fwd[skey] is the hidden port.
C16_HiddenListenerDiverted ==
    \A t \in SeqThreads :
        LET p == pkt[t]
            dkey_in == gen_endpoint_key(p.proto_name, p.dst_ip, p.dport0)
        IN  ( /\ pc[t] = "maybe_fixup_sport"
              /\ p.proto_name \in DOMAIN diverted_ports
              /\ p.dport0 \in DOMAIN diverted_ports[p.proto_name]
              /\ diverted_ports[p.proto_name][p.dport0] = TRUE
              /\ dkey_in \notin DOMAIN port_fwd_table
              /\ ~(dkey_in \in DOMAIN ignore_table
                   /\ ignore_table[dkey_in] = p.sport)
              /\ check_should_ignore(p, pid[t], comm[t]).ret = "False" )
            => /\ p.dport = default_of(p)
               /\ skey(p) \in DOMAIN port_fwd_table
               /\ port_fwd_table[skey(p)] = p.dport0

\* a foreign client's packet to the hidden bound port 80: decide_redir_port
\* is false for a bound dport
C16_Witness ==
    \E t \in SeqThreads :
        /\ pc[t] = "maybe_fixup_sport"
        /\ In2(diverted_ports, pkt[t].proto_name, pkt[t].dport0)
        /\ diverted_ports[pkt[t].proto_name][pkt[t].dport0] = TRUE
        /\ pkt[t].src_ip0 = ForeignIp
        /\ pkt[t].dport = default_of(pkt[t])
        /\ pkt[t].dport # pkt[t].dport0

\* C17: once maybe_redir_port has redirected a packet of an endpoint away
\* from port p, getOriginalDestPort of that endpoint returns p for the rest
\* of the run of that packet (no other packet is processed meanwhile).
C17_OriginalDestPortOfEndpoint ==
    \A t \in SeqThreads :
        LET p == pkt[t]
        IN  (pc[t] \in {"redir_port_session", "addSession",
                        "maybe_fixup_sport", "fixup_sport_locked", "done"}
             /\ p.dport # p.dport0)
            => getOriginalDestPort(p.src_ip0, p.sport0, p.proto_name) = p.dport0

\* the configurations C18 lists as fatal
ListedAsFatal(cfg) ==
    \/ \E i \in 1..Len(cfg.listeners) :
         LET l == cfg.listeners[i]
         IN  \/ /\ "port" \in l.keys
                /\ ("protocol" \notin l.keys \/ l.protocol \notin {"TCP", "UDP"})
             \/ {"processwhitelist", "processblacklist"} \subseteq l.keys
             \/ {"hostwhitelist", "hostblacklist"} \subseteq l.keys
             \/ /\ "executecmd" \in l.keys
                /\ build_cmd_tmpl(l.executecmd, "0", "test", "1.2.3.4", 12345,
                                  "4.3.2.1", l.port) = << >>
    \/ cfg.processwhitelist # {} /\ cfg.processblacklist # {}
    \/ /\ cfg.redirectalltraffic
       /\ \/ cfg.defaulttcplistener = None
          \/ cfg.defaultudplistener = None
          \/ ListenerIndex(cfg.listeners, cfg.defaulttcplistener, 1) = 0
          \/ ListenerIndex(cfg.listeners, cfg.defaultudplistener, 1) = 0

\* C18: startup ends in a fatal configuration error, with no packet
\* processed, for every configuration the claim lists; for every other
\* configuration it completes, unless the host's network checks end it.
C18_StartupOutcome ==
    phase # "init" =>
        IF ListedAsFatal(config)
        THEN phase = "fatal" /\ npkts = 0
        ELSE phase \in {"running", "fatal"}

HeldBy(t) == {l \in LockNames : lock[l] = t}

\* C19: a thread about to read or write port_fwd, ignore, ip_fwd or the
\* capture holds that table's lock, no thread holds more than one lock, and
\* a table or the capture changes only in a step of the holder of its lock.
C19_LockDiscipline ==
    /\ [](\A t \in Threads :
            /\ \A l \in LockNames : pc[t] \in TableAccess[l] => lock[l] = t
            /\ Cardinality(HeldBy(t)) <= 1)
    /\ [][\A t \in Threads :
            pc'[t] # pc[t] =>
              /\ port_fwd_table' # port_fwd_table
                    => lock["port_fwd_table_lock"] = t
              /\ ignore_table' # ignore_table => lock["ignore_table_lock"] = t
              /\ ip_fwd_table' # ip_fwd_table => lock["ip_fwd_table_lock"] = t
              /\ pcap' # pcap => lock["pcap_lock"] = t]_vars

\* one thread is about to write port_fwd under its lock while the other
\* waits to acquire the same lock
C19_Witness ==
    /\ pc[1] = "redir_port_fwd_locked" /\ lock["port_fwd_table_lock"] = 1
    /\ pc[2] = "redir_port_fwd_lock"

\* C20: two concurrent runs are never both at an access of sessions.
C20_SessionsMutualExclusion ==
    ~(pc[1] \in SessionsAccess /\ pc[2] \in SessionsAccess)

\* C21: when a run has ended and its packet was left un-redirected by a
\* redirect stage (destination IP kept by maybe_redir_ip, destination port
\* kept by maybe_redir_port), that stage's table has no entry for the
\* endpoint that sent the packet.
C21_NoStaleEntryAfterUnredirected ==
    \A t \in SeqThreads :
        LET p == pkt[t]
        IN  (pc[t] = "done" /\ p.parsed /\ p.proto_name \in {"TCP", "UDP"}) =>
              /\ p.dst_ip = p.dst_ip0 => skey0(p) \notin DOMAIN ip_fwd_table
              /\ (p.dport = p.dport0 /\ ~is_loopback(p))
                    => skey0(p) \notin DOMAIN port_fwd_table

\* C22: for a packet whose current dkey is in port_fwd when maybe_redir_port
\* starts, every step of the stage leaves the packet, port_fwd, ignore,
\* sessions and the executed commands as they were, and the stage returns
\* right after the lookup.
C22_ReplyOfMasqueradedConversation ==
    [][\A t \in SeqThreads :
         ( /\ pc[t] \in {"maybe_redir_port", "redir_port_found"}
           /\ pc'[t] # pc[t]
           /\ dkey(pkt[t]) \in DOMAIN port_fwd_table )
         => /\ pc'[t] \in {"redir_port_found", "maybe_fixup_sport"}
            /\ pkt'[t] = pkt[t]
            /\ port_fwd_table' = port_fwd_table
            /\ ignore_table' = ignore_table
            /\ sessions' = sessions
            /\ executed' = executed]_vars

\* the stage has returned for a packet that the redirect test, the ignore
\* table and check_should_ignore would all have let through
C22_Witness ==
    \E t \in SeqThreads :
        /\ pc[t] = "maybe_fixup_sport"
        /\ dkey(pkt[t]) \in DOMAIN port_fwd_table
        /\ pkt[t].dport = pkt[t].dport0
        /\ redir_port_condition(pkt[t])
        /\ ~conversation_ignored(pkt[t])
        /\ check_should_ignore(pkt[t], pid[t], comm[t]).ret = "False"
        /\ first_packet_new_session(pkt[t])

\* C23 (as stated): on the not-redirected paths the stage removes the
\* entry of skey from its table and changes no other table entry and no
\* packet field; for maybe_redir_port this covers the rest of the stage,
\* so sessions stays as it was.
C23_NotRedirectedDeletesOnly ==
    [][\A t \in SeqThreads :
         pc'[t] # pc[t] =>
            /\ ( /\ pc[t] = "redir_ip_locked"
                 /\ pkt[t].dst_ip \in ip_addrs[pkt[t].ipver] )
               => /\ ip_fwd_table' = Del(ip_fwd_table, skey(pkt[t]))
                  /\ pkt'[t] = pkt[t]
                  /\ UNCHANGED <<port_fwd_table, ignore_table, sessions>>
            /\ pc[t] = "redir_port_stale_locked"
               => /\ port_fwd_table' = Del(port_fwd_table, skey(pkt[t]))
                  /\ pkt'[t] = pkt[t]
                  /\ UNCHANGED <<ip_fwd_table, ignore_table, sessions>>
            /\ ( /\ pc[t] \in {"redir_port_session", "addSession"}
                 /\ pkt[t].dport = pkt[t].dport0 )
               => /\ pkt'[t] = pkt[t]
                  /\ UNCHANGED <<port_fwd_table, ip_fwd_table, ignore_table,
                                 sessions>>]_vars

\* C23 (amended): the deletion removes the entry of skey from the stage's
\* table and changes no packet field and no entry of port_fwd, ip_fwd or
\* ignore; after it maybe_redir_port may still record the packet's session.
C23_NotRedirectedDeletes ==
    [][\A t \in SeqThreads :
         pc'[t] # pc[t] =>
            /\ ( /\ pc[t] = "redir_ip_locked"
                 /\ pkt[t].dst_ip \in ip_addrs[pkt[t].ipver] )
               => /\ ip_fwd_table' = Del(ip_fwd_table, skey(pkt[t]))
                  /\ pkt'[t] = pkt[t]
                  /\ UNCHANGED <<port_fwd_table, ignore_table, sessions>>
            /\ pc[t] = "redir_port_stale_locked"
               => /\ port_fwd_table' = Del(port_fwd_table, skey(pkt[t]))
                  /\ pkt'[t] = pkt[t]
                  /\ UNCHANGED <<ip_fwd_table, ignore_table, sessions>>
            /\ ( /\ pc[t] \in {"redir_port_session", "addSession"}
                 /\ pkt[t].dport = pkt[t].dport0 )
               => /\ pkt'[t] = pkt[t]
                  /\ UNCHANGED <<port_fwd_table, ip_fwd_table,
                                 ignore_table>>]_vars

\* the second packet of an endpoint whose first packet was redirected to
\* the default listener: it was not redirected and the endpoint's port_fwd
\* entry is gone
C23_Witness ==
    \E t \in SeqThreads :
        /\ pc[t] = "redir_port_session"
        /\ pkt[t].id = 2
        /\ pkt[t].dport = pkt[t].dport0
        /\ port_fwd_table = EmptyDict
        /\ pkt[t].sport \in DOMAIN sessions
        /\ sessions[pkt[t].sport][2] = default_of(pkt[t])

\* C24: when check_should_ignore is true for a packet that maybe_redir_port
\* would redirect, the stage records ignore[skey] = dport and leaves the
\* packet and port_fwd unchanged; a packet whose dkey has an ignore entry
\* equal to its sport is left unchanged by the stage, which never reaches
\* check_should_ignore or the redirect for it and adds no port_fwd entry.
C24_IgnoredConversation ==
    [][\A t \in SeqThreads :
         pc'[t] # pc[t] =>
            /\ pc[t] \in {"redir_port_mark_lock", "redir_port_mark_locked"}
               => /\ pkt'[t] = pkt[t]
                  /\ port_fwd_table' = port_fwd_table
            /\ pc[t] = "redir_port_mark_locked"
               => /\ ignore_table' =
                        Put(ignore_table, skey(pkt[t]), pkt[t].dport)
                  /\ pc'[t] = "maybe_fixup_sport"
            /\ ( /\ pc[t] \in {"maybe_redir_port", "redir_port_found",
                               "redir_port_ignore_lock",
                               "redir_port_ignore_locked",
                               "redir_port_stale_lock",
                               "redir_port_stale_locked",
                               "redir_port_session", "addSession"}
                 /\ pkt[t].dport = pkt[t].dport0
                 /\ dkey(pkt[t]) \in DOMAIN ignore_table
                 /\ ignore_table[dkey(pkt[t])] = pkt[t].sport )
               => /\ pkt'[t] = pkt[t]
                  /\ DOMAIN port_fwd_table' \subseteq DOMAIN port_fwd_table
                  /\ pc'[t] \notin {"redir_port_check", "redir_port_mark_lock",
                                    "redir_port_fwd_lock"}]_vars

\* the reply of an ignored conversation: decide_redir_port would redirect
\* it and check_should_ignore would not ignore it, yet the stage returned
\* with the packet as it came
C24_Witness ==
    \E t \in SeqThreads :
        /\ pc[t] = "maybe_fixup_sport"
        /\ dkey(pkt[t]) \in DOMAIN ignore_table
        /\ ignore_table[dkey(pkt[t])] = pkt[t].sport
        /\ dkey(pkt[t]) \notin DOMAIN port_fwd_table
        /\ decide_redir_port(pkt[t], bound_ports_of(pkt[t]))
        /\ check_should_ignore(pkt[t], pid[t], comm[t]).ret = "False"
        /\ pkt[t].dport = pkt[t].dport0
        /\ skey(pkt[t]) \notin DOMAIN port_fwd_table

\* C25: on the first packet of a new session maybe_redir_port records
\* sessions[sport] = (dst_ip, dport), and with a known pid it hands a command
\* to execute_detached whenever port_execute[proto] has an entry for the
\* packet's current dport or for the default listener's port.
C25_SessionAndCommand ==
    /\ [](\A t \in SeqThreads :
            LET p == pkt[t]
            IN  ( /\ pc[t] = "addSession"
                  /\ pid[t] # None
                  /\ p.proto_name \in DOMAIN port_execute
                  /\ \/ p.dport \in DOMAIN port_execute[p.proto_name]
                     \/ default_of(p) \in DOMAIN port_execute[p.proto_name] )
                => maybeExecuteCmd(p, pid[t], comm[t]) # << >>)
    /\ [][\A t \in SeqThreads :
            (pc[t] = "addSession" /\ pc'[t] # pc[t]) =>
               sessions' = Put(sessions, pkt[t].sport,
                               <<pkt[t].dst_ip, pkt[t].dport>>)]_vars

\* C26: for a TCP or UDP packet the layer 4 stages are skipped exactly when
\* src_ip and dst_ip both equal the loopback IP after layer 3; no thread is
\* in a layer 4 stage with such a packet, its ports stay pristine, and no
\* step of its run after layer 3 changes port_fwd, ignore or sessions.
C26_LoopbackPassThrough ==
    /\ [](\A t \in SeqThreads :
            LET p == pkt[t]
            IN  ( /\ pc[t] \notin {"idle", "raised"}
                  /\ p.proto_name \in {"TCP", "UDP"}
                  /\ p.src_ip = LoopbackIp /\ p.dst_ip = LoopbackIp )
                => /\ pc[t] \in {"write_pcap_initial", "writepkt_initial",
                                 "parsed", "maybe_redir_ip", "redir_ip_lock",
                                 "redir_ip_locked", "maybe_fixup_srcip",
                                 "fixup_srcip_locked", "write_pcap_mangled",
                                 "writepkt_mangled", "done"}
                   /\ p.sport = p.sport0 /\ p.dport = p.dport0)
    /\ [][\A t \in SeqThreads :
            LET q == pkt'[t]
                both == q.src_ip = LoopbackIp /\ q.dst_ip = LoopbackIp
            IN  /\ ( /\ pc[t] = "fixup_srcip_locked" /\ pc'[t] # pc[t]
                     /\ q.proto_name \in {"TCP", "UDP"} )
                   => (pc'[t] = "maybe_redir_port" <=> ~both)
                /\ ( /\ pc[t] \in {"fixup_srcip_locked", "write_pcap_mangled",
                                   "writepkt_mangled"}
                     /\ pc'[t] # pc[t] /\ both )
                   => UNCHANGED <<port_fwd_table, ignore_table,
                                  sessions>>]_vars

\* a packet from the loopback address to a foreign one, whose destination
\* became loopback through maybe_redir_ip, has left the pipeline
C26_Witness ==
    \E t \in SeqThreads :
        /\ pc[t] = "done"
        /\ pkt[t].proto_name = "TCP"
        /\ pkt[t].src_ip = LoopbackIp /\ pkt[t].dst_ip = LoopbackIp
        /\ pkt[t].dst_ip0 = ForeignIp
        /\ pkt[t].dport0 = 53
        /\ pid[t] = None

\* the positions inside the layer 4 stages
Layer4Pcs ==
    {"maybe_redir_port", "redir_port_found", "redir_port_ignore_lock",
     "redir_port_ignore_locked", "redir_port_check", "redir_port_mark_lock",
     "redir_port_mark_locked", "redir_port_fwd_lock", "redir_port_fwd_locked",
     "redir_port_stale_lock", "redir_port_stale_locked", "redir_port_session",
     "addSession", "maybe_fixup_sport", "fixup_sport_locked"}

\* C27: a packet whose header failed to parse runs no stage and keeps its
\* fields, and a parsed packet whose protocol is neither TCP nor UDP is
\* never inside a layer 4 stage.
C27_UnparsedAndOtherProtocols ==
    \A t \in SeqThreads :
        LET p == pkt[t]
        IN  pc[t] # "idle" =>
              /\ ~p.parsed =>
                    /\ pc[t] \in {"write_pcap_initial", "writepkt_initial",
                                  "parsed", "done"}
                    /\ ~p.mangled
                    /\ octets(p) = pristine_octets(p)
              /\ (p.parsed /\ p.proto_name \notin {"TCP", "UDP"})
                    => pc[t] \notin Layer4Pcs

\* C28 (as stated): while packets are processed the filter policy,
\* blacklist_ports included, stays equal to what startup built.
C28_PolicyFrozen ==
    [][phase = "running" => UNCHANGED <<policy, blacklist_ports>>]_vars

\* C28 (amended): while packets are processed every part of the filter
\* policy but blacklist_ports stays as startup built it, and blacklist_ports
\* changes only by gaining the pristine source port of a packet sent by the
\* diverter's own process, under that packet's protocol.
C28_PolicyFrozenButBlacklist ==
    [][phase = "running" =>
          /\ UNCHANGED policy
          /\ DOMAIN blacklist_ports' = DOMAIN blacklist_ports
          /\ \A pr \in DOMAIN blacklist_ports :
                 blacklist_ports[pr] \subseteq blacklist_ports'[pr]
          /\ blacklist_ports' # blacklist_ports =>
                 \E t \in SeqThreads :
                     /\ pid[t] = SelfPid
                     /\ pkt[t].proto_name \in DOMAIN blacklist_ports
                     /\ blacklist_ports' =
                            [blacklist_ports EXCEPT
                                ![pkt[t].proto_name] = @ \cup {pkt[t].sport0}]
    ]_vars

\* a port configured at startup and a port added while running are both
\* blacklisted
C28_Witness ==
    /\ phase = "running"
    /\ "TCP" \in DOMAIN blacklist_ports
    /\ parse_diverter_config(config).blacklist_ports["TCP"] # {}
    /\ parse_diverter_config(config).blacklist_ports["TCP"]
          # blacklist_ports["TCP"]
    /\ parse_diverter_config(config).blacklist_ports["TCP"]
          \subseteq blacklist_ports["TCP"]

\* C29: the step that records a new session and runs maybeExecuteCmd always
\* goes on to maybe_fixup_sport, whether the command was built, failed to
\* build or failed to spawn; the session is recorded, the packet and
\* port_fwd_table stand, and at most the packet's command is spawned.
C29_CommandFailuresRecovered ==
    [][\A t \in SeqThreads :
          pc[t] = "addSession" =>
              /\ pc'[t] = "maybe_fixup_sport"
              /\ pkt'[t] = pkt[t]
              /\ port_fwd_table' = port_fwd_table
              /\ sessions' = Put(sessions, pkt[t].sport,
                                 <<pkt[t].dst_ip, pkt[t].dport>>)
              /\ \/ executed' = executed
                 \/ /\ Len(executed') = Len(executed) + 1
                    /\ SubSeq(executed', 1, Len(executed)) = executed
                    /\ executed'[Len(executed')][1] = pkt[t].id
    ]_vars

\* C30: no packet leaves the pipeline with a destination field rewritten
\* (dst_ip or dport) and also a source field rewritten (src_ip or sport).
C30_RequestOrReplyNeverBoth ==
    \A t \in SeqThreads :
        pc[t] = "done" =>
            ~ ( /\ (pkt[t].dst_ip # pkt[t].dst_ip0 \/ pkt[t].dport # pkt[t].dport0)
                /\ (pkt[t].src_ip # pkt[t].src_ip0 \/ pkt[t].sport # pkt[t].sport0) )

(***************************************************************************)
(* Two threads under a configuration with a command on port 80: a packet   *)
(* between two local non-loopback endpoints, so that the FTP active-mode   *)
(* rule can blacklist a port while another run is in flight, and a packet  *)
(* to the listener of port 80.                                             *)
(***************************************************************************)
RacePackets ==
    Requests("TCP", {LocalIp}, {LocalIp}, {53})
    \cup Requests("TCP", {ForeignIp}, {LocalIp}, {80})

InitRace == InitWith({[ExecPortConfig EXCEPT !.dumppackets = TRUE]})

NextRace ==
    \/ DiverterInit
    \/ \E t \in Threads : \E raw \in RacePackets : Ingress(t, raw)
    \/ \E t \in Threads : Step(t)

SpecRace == InitRace /\ [][NextRace]_vars

\* C31: within one pipeline run an answer of true from check_should_ignore
\* stays true whatever the other thread does, and a run enters the
\* insertion into port_fwd_table and the dport rewrite of maybe_redir_port
\* only from a state where the answer is not true; so a packet ignored at
\* maybe_redir_ip is never dport-rewritten in the same run.
C31_IgnoreDecisionConsistent ==
    [][\A t \in Threads :
          /\ ( /\ pc[t] # "idle"
               /\ pkt'[t].id = pkt[t].id
               /\ check_should_ignore(pkt[t], pid[t], comm[t]).ret = "True" )
             => /\ (check_should_ignore(pkt[t], pid[t], comm[t]).ret)' = "True"
                /\ pc[t] # "redir_port_fwd_lock"
                      => pc'[t] # "redir_port_fwd_lock"
          /\ ( pc[t] = "maybe_redir_ip"
               /\ check_should_ignore(pkt[t], pid[t], comm[t]).ret = "True"
               /\ pc'[t] # pc[t] )
             => pc'[t] = "maybe_fixup_srcip" /\ pkt'[t] = pkt[t]
    ]_vars

\* a packet of an unknown process, ignored only because the other run's
\* packet got its port blacklisted, is marked as ignored by maybe_redir_port
C31_Witness ==
    \E t \in Threads :
        /\ pc[t] = "redir_port_mark_locked"
        /\ pid[t] = None
        /\ pkt[t].sport0 \in blacklist_ports["TCP"]
        /\ \E u \in Threads \ {t} : pc[u] \notin {"idle", "done", "raised"}

\* C32: while packets are processed blacklist_ports only gains ports, and a
\* packet whose pristine sport or dport is blacklisted for its protocol is
\* ignored at both places where check_should_ignore is asked, whatever its
\* pid, process name and addresses.
C32_BlacklistingPermanent ==
    [][phase = "running" =>
          /\ \A pr \in DOMAIN blacklist_ports :
                 /\ pr \in DOMAIN blacklist_ports'
                 /\ blacklist_ports[pr] \subseteq blacklist_ports'[pr]
          /\ \A t \in SeqThreads :
                 ( /\ pkt[t].proto_name \in DOMAIN blacklist_ports
                   /\ {pkt[t].sport0, pkt[t].dport0}
                          \cap blacklist_ports[pkt[t].proto_name] # {} )
                 => /\ pc[t] = "maybe_redir_ip"
                          => pc'[t] = "maybe_fixup_srcip" /\ pkt'[t] = pkt[t]
                    /\ pc[t] = "redir_port_check"
                          => pc'[t] = "redir_port_mark_lock"
    ]_vars

\* the second packet, of an unknown process, is being marked as ignored
\* because the first packet's FTP active-mode rule blacklisted its port
C32_Witness ==
    \E t \in SeqThreads :
        /\ pc[t] = "redir_port_mark_locked"
        /\ pkt[t].id = 2
        /\ pid[t] = None
        /\ pkt[t].proto_name = "TCP"
        /\ pkt[t].sport0 \in blacklist_ports["TCP"]
        /\ pkt[t].dport0 \notin blacklist_ports["TCP"]
        /\ parse_diverter_config(config).blacklist_ports["TCP"] = {}

\* C33: every value of ip_fwd_table is an address that is not local, every
\* value of port_fwd_table is a port that is unbound for the key's protocol
\* or bound by a hidden listener, and a source fixup sets src_ip only to a
\* non-local address and sport only to an unbound or hidden-bound port.
C33_ForwardedValuesGenuine ==
    /\ []( /\ \A k \in DOMAIN ip_fwd_table :
                 ip_fwd_table[k] \notin ip_addrs[4]
           /\ \A k \in DOMAIN port_fwd_table :
                 \/ k[1] \notin DOMAIN diverted_ports
                 \/ port_fwd_table[k] \notin DOMAIN diverted_ports[k[1]]
                 \/ diverted_ports[k[1]][port_fwd_table[k]] = TRUE )
    /\ [][\A t \in SeqThreads :
            pkt'[t].id = pkt[t].id =>
               /\ pkt'[t].src_ip # pkt[t].src_ip
                     => pkt'[t].src_ip \notin ip_addrs[4]
               /\ pkt'[t].sport # pkt[t].sport
                     => \/ pkt[t].proto_name \notin DOMAIN diverted_ports
                        \/ pkt'[t].sport
                              \notin DOMAIN diverted_ports[pkt[t].proto_name]
                        \/ diverted_ports[pkt[t].proto_name][pkt'[t].sport]
                              = TRUE
         ]_vars

\* a reply left with its source port set back to the port of the hidden
\* listener the request had aimed at, and an ip_fwd_table entry exists
C33_Witness ==
    /\ ip_fwd_table # EmptyDict
    /\ \E t \in SeqThreads :
        /\ pc[t] = "done"
        /\ pkt[t].sport # pkt[t].sport0
        /\ pkt[t].sport \in DOMAIN diverted_ports["TCP"]

\* C34: when the second packet handed to the diverter has a pristine
\* 5-tuple other than the first packet's (read back from the first record
\* of the capture file), it is a first packet of a new session at the
\* session step of maybe_redir_port.
C34_NewSessionPerConversation ==
    \A t \in SeqThreads :
        ( /\ pcap_enabled
          /\ pc[t] = "redir_port_session"
          /\ pkt[t].id = 2
          /\ Len(pcap) >= 1
          /\ pcap[1][1] = 1
          /\ pcap[1][2] # pristine_octets(pkt[t]) )
        => ~ ( /\ pkt[t].sport \in DOMAIN sessions
               /\ sessions[pkt[t].sport] = <<pkt[t].dst_ip, pkt[t].dport>> )

\* C35: when the only two packets handed to the diverter belong to one
\* conversation (same pristine 5-tuple, same resulting dst_ip and dport)
\* and are processed by two threads, at most one command has been spawned.
C35_CommandOncePerSession ==
    ( /\ npkts = 2
      /\ pkt[1].id # pkt[2].id
      /\ pkt[1].id \in {1, 2} /\ pkt[2].id \in {1, 2}
      /\ pristine_octets(pkt[1]) = pristine_octets(pkt[2])
      /\ pkt[1].dst_ip = pkt[2].dst_ip
      /\ pkt[1].dport = pkt[2].dport )
    => Len(executed) <= 1

\* Thread 1 is handed the local-to-local datagrams and thread 2 those to
\* port 80; every thread that can take a step of its pipeline run
\* eventually takes it.
NextFair ==
    \/ DiverterInit
    \/ \E raw \in Requests("TCP", {LocalIp}, {LocalIp}, {53}) : Ingress(1, raw)
    \/ \E raw \in Requests("TCP", {ForeignIp}, {LocalIp}, {80}) : Ingress(2, raw)
    \/ \E t \in Threads : Step(t)

SpecFair ==
    InitRace /\ [][NextFair]_vars /\ \A t \in Threads : WF_vars(Step(t))

\* C36: a thread holds a lock only inside the stage section that took it
\* (so every exit path of a stage has released it), and under fair
\* scheduling every pipeline run that has begun reaches its end.
C36_TerminatesLocksReleased ==
    /\ [](\A t \in Threads :
            /\ lock["pcap_lock"] = t
                  => pc[t] \in {"writepkt_initial", "writepkt_mangled"}
            /\ lock["ip_fwd_table_lock"] = t
                  => pc[t] \in {"redir_ip_locked", "fixup_srcip_locked"}
            /\ lock["ignore_table_lock"] = t
                  => pc[t] \in {"redir_port_ignore_locked",
                                "redir_port_mark_locked"}
            /\ lock["port_fwd_table_lock"] = t
                  => pc[t] \in {"redir_port_found",
                                "redir_port_fwd_locked",
                                "redir_port_stale_locked",
                                "fixup_sport_locked"})
    /\ \A t \in Threads : (pc[t] # "idle") ~> (pc[t] = "done")

\* a thread inside maybe_redir_port holds port_fwd_table_lock while the
\* other thread stands before the acquisition of the same lock
C36_Witness ==
    \E t \in Threads : \E u \in Threads \ {t} :
        /\ lock["port_fwd_table_lock"] = t
        /\ pc[t] \in {"redir_port_fwd_locked", "redir_port_stale_locked"}
        /\ pc[u] \in {"maybe_redir_port", "maybe_fixup_sport"}

\* C37: with redirectalltraffic on, no stage fails on a parsed packet: no
\* pipeline run of an ICMP, TCP or UDP packet ends in an exception.
C37_StagesDefinedForParsedPackets ==
    \A t \in SeqThreads :
        ( /\ phase = "running"
          /\ config.redirectalltraffic
          /\ pkt[t].parsed
          /\ pkt[t].proto_name \in {"ICMP", "TCP", "UDP"} )
        => pc[t] # "raised"

\* C38: after a successful startup with redirectalltraffic set, the default
\* listener of TCP and of UDP is set and is a bound port of its own
\* protocol; without redirectalltraffic neither is set.
C38_DefaultListenersBound ==
    phase = "running" =>
        \A proto \in {"TCP", "UDP"} :
            /\ proto \in DOMAIN default_listener
            /\ IF config.redirectalltraffic
               THEN /\ default_listener[proto] # NoPort
                    /\ proto \in DOMAIN diverted_ports
                    /\ default_listener[proto] \in DOMAIN diverted_ports[proto]
               ELSE default_listener[proto] = NoPort

=============================================================================
